---- MODULE Spec2Model ----
(***************************************************************************)
(* A model of the hybrid retrieval and answer-grounding pipeline:          *)
(*   app/retriever.py  HybridRetriever (__init__, _load_indexes, search)   *)
(*   app/rag.py        RAGPipeline (query, _extract_evidence_map, ...)     *)
(*                                                                         *)
(* Scores are exact rationals kept as integers.  A raw score (dense        *)
(* similarity, BM25 score, cross-encoder score) is a multiple of           *)
(* 1/20, alpha a multiple of 1/AlphaDen, and every fused or final score   *)
(* is kept in units of 1/(10 * AlphaDen * 20) = 1/4000, so that            *)
(*   alpha*d + (1-alpha)*s   and   0.7*r + 0.3*f                           *)
(* are computed without rounding.                                          *)
(***************************************************************************)
EXTENDS Integers, Sequences, FiniteSets, TLC

\* ------------------------------------------------------------------ bounds
NumChunks == 3      \* chunks in the ingested corpus (ids 0 .. NumChunks-1)
MaxTopK == 2        \* largest top_k a call is made with
MaxRerankK == 1     \* largest rerank_k a call is made with
MaxFrags == 3       \* pieces an answer given to _extract_evidence_map is made of
MaxSources == 3     \* longest source list given to _extract_evidence_map
MaxPiiFrags == 2    \* pieces a text given to redact_pii is made of
MaxAnswerLen == 11  \* longest run of characters in an answer given to validate_answer
MaxPromptWords == 600  \* most words of context and question in a prompt

\* --------------------------------------------------------------- constants
AlphaDen == 20      \* alpha = a / AlphaDen; 13/20 is the default 0.65
DefaultAlpha == 13
RerankWeight == 7   \* 0.7 of the final score is the cross-encoder's
FusionWeight == 3   \* 0.3 of the final score is the fused score
OverFetch == 3      \* initial_k = top_k * 3 with the reranker
LexFactor == 2      \* the lexical top set holds rerank_k * 2 ids
MinAnswerLen == 10  \* validate_answer: len(answer.strip()) < 10 is too short
PromptFixed == 69   \* words of the prompt other than system prompt, context and question
SafetyMargin == 200 \* tokens of the window kept free
MinOutput == 256    \* the least max_tokens asked of the generation service
MaxOutput == 2048   \* the most max_tokens asked of the generation service
DensePad == -1000   \* the score faiss pads a short result list with (-FLT_MAX)
PadId == -1         \* the id faiss pads a short result list with

Chunks == 0 .. (NumChunks - 1)
Alphas == {0, DefaultAlpha, AlphaDen}
\* the similarities of the chunks to a query: 0.9, 0.4, 0.65, 0.15, ... dealt to
\* the chunks in any order (distinct chunks, distinct similarities)
DenseLevels == <<18, 8, 13, 3, 16, 5, 11, 1>>
DenseVals == {DenseLevels[p] : p \in 1 .. NumChunks}
DenseFns == {d \in [Chunks -> DenseVals] : \A a, b \in Chunks : a # b => d[a] # d[b]}
BmVals == {0, 8}            \* no shared term, and 0.4
RerankVals == {4, 19}       \* 0.2 and 0.95

\* One unit of a raw score in the unit of fused and final scores.
RawUnit == 10 * AlphaDen

\* ------------------------------------------------------------------ state
VARIABLES
    constructed,    \* "new" | "ok" | "raised": the outcome of HybridRetriever(cfg)
    faiss_index,    \* "None" | "loaded"
    bm25,           \* "None" | "loaded"
    docs,           \* self.docs: the chunk texts, chunk i's text written i
    meta,           \* self.meta: the chunk titles
    use_reranker,   \* self.use_reranker (self.reranker is set exactly when it is)
    cfg,            \* cfg["retrieval"]: top_k, rerank_k, hybrid_alpha
    call,           \* the frame of the call that last ran; NoCall once it is dropped
    session         \* the locals of the command of app.py that is running

vars == <<constructed, faiss_index, bm25, docs, meta, use_reranker, cfg, call, session>>

NoCall == [op |-> "none"]

\* no command of app.py is running
NoSession == [mode |-> "none"]

\* ------------------------------------------------------- python sequences
Min(a, b) == IF a <= b THEN a ELSE b

\* seq[:k] for k >= 0
Take(seq, k) == SubSeq(seq, 1, Min(k, Len(seq)))

\* seq[i] is defined for -len <= i < len; a negative i counts from the end
InRange(seq, i) == (-Len(seq) <= i) /\ (i < Len(seq))
PyIndex(seq, i) == IF i >= 0 THEN seq[i + 1] ELSE seq[Len(seq) + i + 1]

\* list(seq).index(x): the 1-based position of the first x
RECURSIVE FirstPos(_, _, _)
FirstPos(seq, x, p) ==
    IF p > Len(seq) THEN 0
    ELSE IF seq[p] = x THEN p ELSE FirstPos(seq, x, p + 1)
IndexOf(seq, x) == FirstPos(seq, x, 1)

Range(seq) == {seq[p] : p \in 1 .. Len(seq)}

\* list(set(...)) of small ints: CPython walks the hash table in slot order,
\* which for the ids of a small corpus is ascending, the pad id -1 (hash -2) last.
RECURSIVE SetToList(_)
SetToList(S) ==
    IF S = {} THEN <<>>
    ELSE IF S = {PadId} THEN <<PadId>>
    ELSE LET m == CHOOSE x \in S \ {PadId} : \A y \in S \ {PadId} : x <= y
         IN <<m>> \o SetToList(S \ {m})

\* a sort that puts a later item before the earlier items of the same score
RECURSIVE InsertBeforeEqualFrom(_, _, _)
InsertBeforeEqualFrom(sorted, x, p) ==
    IF p > Len(sorted) THEN Append(sorted, x)
    ELSE IF sorted[p].score <= x.score
         THEN SubSeq(sorted, 1, p - 1) \o <<x>> \o SubSeq(sorted, p, Len(sorted))
         ELSE InsertBeforeEqualFrom(sorted, x, p + 1)

RECURSIVE UnstableSortFrom(_, _, _)
UnstableSortFrom(items, p, acc) ==
    IF p > Len(items) THEN acc
    ELSE UnstableSortFrom(items, p + 1, InsertBeforeEqualFrom(acc, items[p], 1))

SortedDescUnstable(items) == UnstableSortFrom(items, 1, <<>>)

\* sorted(items, key=score, reverse=True): stable, so equal scores keep their order
RECURSIVE InsertDescFrom(_, _, _)
InsertDescFrom(sorted, x, p) ==
    IF p > Len(sorted) THEN Append(sorted, x)
    ELSE IF sorted[p].score < x.score
         THEN SubSeq(sorted, 1, p - 1) \o <<x>> \o SubSeq(sorted, p, Len(sorted))
         ELSE InsertDescFrom(sorted, x, p + 1)

RECURSIVE SortFrom(_, _, _)
SortFrom(items, p, acc) ==
    IF p > Len(items) THEN acc
    ELSE SortFrom(items, p + 1, InsertDescFrom(acc, items[p], 1))

SortedDesc(items) == SortFrom(items, 1, <<>>)

\* ------------------------------------------------------- external indexes
\* faiss_index.search(qv, k) on an IndexFlatIP of the corpus: the ids of the k
\* chunks nearest to the query, best first, with their similarities; when the
\* corpus holds fewer than k chunks the lists are padded with id -1 and the
\* lowest float.  dense[c] is the similarity of chunk c to the query; the order
\* among equal similarities is the library's choice.
FaissSearch(dense, k) ==
    LET m == Min(k, NumChunks)
        ranked == {s \in [1 .. m -> Chunks] :
                     /\ \A p, q \in 1 .. m : p < q =>
                            /\ s[p] # s[q]
                            /\ dense[s[p]] >= dense[s[q]]
                     /\ \A c \in Chunks \ {s[p] : p \in 1 .. m} :
                            \A p \in 1 .. m : dense[s[p]] >= dense[c]}
    IN {[I |-> [p \in 1 .. k |-> IF p <= m THEN s[p] ELSE PadId],
         D |-> [p \in 1 .. k |-> IF p <= m THEN dense[s[p]] ELSE DensePad]] :
            s \in ranked}

\* bm25.get_scores(query.split()): one score per chunk, indexed by chunk id
BmScores(bm) == [p \in 1 .. NumChunks |-> bm[p - 1]]

\* a lexical top set of rerank_k ids
BmTopExact(bm_scores, rerank_k) ==
    LET n == Len(bm_scores)
        size == Min(rerank_k, n)
    IN {S \in SUBSET (0 .. (n - 1)) :
          /\ Cardinality(S) = size
          /\ \A a \in S : \A b \in (0 .. (n - 1)) \ S :
                 PyIndex(bm_scores, a) >= PyIndex(bm_scores, b)}

\* np.argpartition(-bm_scores, min(rerank_k * 2, len - 1))[:rerank_k * 2]:
\* the ids of the rerank_k * 2 highest scores (all ids of a smaller corpus),
\* in no particular order; which of several equal scores is kept is numpy's choice.
BmTop(bm_scores, rerank_k) ==
    LET n == Len(bm_scores)
        size == Min(rerank_k * LexFactor, n)
    IN {S \in SUBSET (0 .. (n - 1)) :
          /\ Cardinality(S) = size
          /\ \A a \in S : \A b \in (0 .. (n - 1)) \ S :
                 PyIndex(bm_scores, a) >= PyIndex(bm_scores, b)}

\* ------------------------------------------------- HybridRetriever.search
\* initial_k = top_k * 3 if self.use_reranker else top_k
InitialK(top_k, reranker) == IF reranker THEN top_k * OverFetch ELSE top_k

\* a missing dense score counted as a penalty instead of 0
DenseOfPenalty(i, dense_idx, dense_scores) ==
    IF i \in Range(dense_idx) THEN dense_scores[IndexOf(dense_idx, i)] ELSE -1

\* dense = float(dense_scores[list(dense_idx).index(i)]) if i in dense_idx else 0
DenseOf(i, dense_idx, dense_scores) ==
    IF i \in Range(dense_idx) THEN dense_scores[IndexOf(dense_idx, i)] ELSE 0

\* sparse = float(bm_scores[i]) if i < len(bm_scores) else 0
SparseOf(i, bm_scores) ==
    IF i < Len(bm_scores) THEN PyIndex(bm_scores, i) ELSE 0

\* the two weights exchanged
FusedScoreSwapped(alpha, dense, sparse) ==
    10 * ((AlphaDen - alpha) * dense + alpha * sparse)

\* score = alpha * dense + (1-alpha) * sparse
FusedScore(alpha, dense, sparse) ==
    10 * (alpha * dense + (AlphaDen - alpha) * sparse)

\* the two weights exchanged
FinalScoreSwapped(rerank_score, orig_score) ==
    FusionWeight * AlphaDen * rerank_score + (RerankWeight * orig_score) \div 10

\* final_score = 0.7 * float(rerank_score) + 0.3 * orig_score
FinalScore(rerank_score, orig_score) ==
    RerankWeight * AlphaDen * rerank_score + (FusionWeight * orig_score) \div 10

\* cand = list(set(dense_idx.tolist()) | set(bm_top.tolist()))
Candidates(dense_idx, bm_top) == SetToList(Range(dense_idx) \cup bm_top)

\* the fusion loop: one (i, score) per candidate, in candidate order
FuseAll(cand, alpha, dense_idx, dense_scores, bm_scores) ==
    [p \in 1 .. Len(cand) |->
        [chunk |-> cand[p],
         dense |-> DenseOf(cand[p], dense_idx, dense_scores),
         sparse |-> SparseOf(cand[p], bm_scores),
         score |-> FusedScore(alpha,
                              DenseOf(cand[p], dense_idx, dense_scores),
                              SparseOf(cand[p], bm_scores))]]

\* fused = sorted(fused, key=lambda x: x[1], reverse=True)[:initial_k]
FusedTop(fused_all, initial_k) == Take(SortedDesc(fused_all), initial_k)

\* the (i, final_score, rerank_score, orig_score) tuples before the second sort;
\* rr[t] is the cross-encoder's score of the pair (query, text t)
Reranked(fused, docs_, rr) ==
    [p \in 1 .. Len(fused) |->
        [chunk |-> fused[p].chunk,
         dense |-> fused[p].dense,
         sparse |-> fused[p].sparse,
         reranked |-> TRUE,
         rerank_score |-> rr[PyIndex(docs_, fused[p].chunk)],
         orig_score |-> fused[p].score,
         score |-> FinalScore(rr[PyIndex(docs_, fused[p].chunk)], fused[p].score)]]

\* final_results = [(i, score, None, score) for i, score in fused[:top_k]]
NotReranked(fused) ==
    [p \in 1 .. Len(fused) |->
        [chunk |-> fused[p].chunk,
         dense |-> fused[p].dense,
         sparse |-> fused[p].sparse,
         reranked |-> FALSE,
         rerank_score |-> 0,
         orig_score |-> fused[p].score,
         score |-> fused[p].score]]

\* the list the last sort of the call was given
SortInput(fused_all, fused, reranker, docs_, rr) ==
    IF reranker THEN Reranked(fused, docs_, rr) ELSE NotReranked(fused_all)

\* final_results of either branch
FinalResults(fused, top_k, reranker, docs_, rr) ==
    IF reranker
    THEN Take(SortedDesc(Reranked(fused, docs_, rr)), top_k)
    ELSE Take(NotReranked(fused), top_k)

\* self.docs[i] raises IndexError outside the list; self.meta[i] is read only
\* when i < len(self.meta)
DocsReadable(items, docs_, meta_) ==
    \A p \in 1 .. Len(items) :
        /\ InRange(docs_, items[p].chunk)
        /\ (items[p].chunk < Len(meta_) => InRange(meta_, items[p].chunk))

UnknownTitle == <<"Unknown">>
FileTitle(c) == <<"file", c>>

\* "title": self.meta[i].get("title", "Unknown") if i < len(self.meta) else "Unknown"
TitleOf(i, meta_) == IF i < Len(meta_) THEN PyIndex(meta_, i) ELSE UnknownTitle

\* the value the fusion loop leaves in its variable `dense`: that of the last candidate
LoopDense(fused_all) ==
    IF Len(fused_all) = 0 THEN 0 ELSE fused_all[Len(fused_all)].dense

\* item["explain"]: the numbers of the explanation (spans and terms are left out)
Explain(r, loop_dense, dense_idx, alpha, reranker) ==
    [cos |-> IF r.chunk \in Range(dense_idx) THEN loop_dense ELSE 0,
     fusion_alpha |-> alpha,
     fusion_dense |-> r.dense,
     fusion_bm25 |-> r.sparse,
     fusion_fused |-> r.orig_score,
     rerank_enabled |-> reranker,
     rerank_score |-> r.rerank_score,
     rerank_final |-> r.score]

NoExplain == [cos |-> 0, fusion_alpha |-> 0, fusion_dense |-> 0, fusion_bm25 |-> 0,
              fusion_fused |-> 0, rerank_enabled |-> FALSE, rerank_score |-> 0,
              rerank_final |-> 0]

\* the result dictionaries; `chunk` is the loop's i, which the dictionary does not carry
Results(final_results, docs_, meta_, explain, loop_dense, dense_idx, alpha, reranker) ==
    [p \in 1 .. Len(final_results) |->
        [chunk |-> final_results[p].chunk,
         text |-> PyIndex(docs_, final_results[p].chunk),
         title |-> TitleOf(final_results[p].chunk, meta_),
         score |-> final_results[p].score,
         reranked |-> final_results[p].reranked,
         rerank_score |-> final_results[p].rerank_score,
         orig_score |-> final_results[p].orig_score,
         explained |-> explain,
         explain |-> IF explain
                     THEN Explain(final_results[p], loop_dense, dense_idx, alpha, reranker)
                     ELSE NoExplain]]

\* what a call that did not get as far as an index or the cross-encoder was answered
NoFaiss == [I |-> <<>>, D |-> <<>>]
NoRerank == <<>>

\* if not self.faiss_index or not self.bm25: return []
IndexesMissingBoth(self_) == self_.faiss_index = "None" /\ self_.bm25 = "None"
IndexesMissing(self_) == self_.faiss_index = "None" \/ self_.bm25 = "None"

\* The frame of one search call on a retriever whose fields are self_: what it was
\* given, the lists it built, how it ended and which models it called.
\*   top_k, rerank_k, alpha, explain   the parameters
\*   f = [I, D]                        what faiss_index.search answers
\*   bm_scores, bm_top                 what bm25.get_scores and argpartition answer
\*   rr                                what reranker.predict answers, by text
search(self_, top_k, rerank_k, alpha, explain, f, bm_scores, bm_top, rr) ==
    LET params == [top_k |-> top_k, rerank_k |-> rerank_k, alpha |-> alpha,
                   explain |-> explain]
    IN
    IF IndexesMissing(self_)
    THEN [op |-> "search", params |-> params, loaded |-> FALSE, outcome |-> "returned",
          I |-> <<>>, D |-> <<>>, bm_scores |-> <<>>, bm_top |-> {}, rr |-> NoRerank,
          cand |-> <<>>, fused_all |-> <<>>, fused |-> <<>>, sort_input |-> <<>>,
          results |-> <<>>, embed_calls |-> 0, rerank_calls |-> 0]
    ELSE
    LET reranker == self_.use_reranker
        initial_k == InitialK(top_k, reranker)
        cand == Candidates(f.I, bm_top)
        fused_all == FuseAll(cand, alpha, f.I, f.D, bm_scores)
        fused == FusedTop(fused_all, initial_k)
        readable == IF reranker
                    THEN DocsReadable(fused, self_.docs, self_.meta)
                    ELSE DocsReadable(Take(fused, top_k), self_.docs, self_.meta)
    IN IF ~readable
       THEN [op |-> "search", params |-> params, loaded |-> TRUE, outcome |-> "raised",
             I |-> f.I, D |-> f.D, bm_scores |-> bm_scores, bm_top |-> bm_top,
             rr |-> NoRerank,
             cand |-> cand, fused_all |-> fused_all, fused |-> fused,
             sort_input |-> <<>>, results |-> <<>>,
             embed_calls |-> 1, rerank_calls |-> 0]
       ELSE
       LET final_results == FinalResults(fused, top_k, reranker, self_.docs, rr)
           results == Results(final_results, self_.docs, self_.meta, explain,
                              LoopDense(fused_all), f.I, alpha, reranker)
       IN [op |-> "search", params |-> params, loaded |-> TRUE, outcome |-> "returned",
           I |-> f.I, D |-> f.D, bm_scores |-> bm_scores, bm_top |-> bm_top,
           rr |-> IF reranker THEN rr ELSE NoRerank,
           cand |-> cand, fused_all |-> fused_all, fused |-> fused,
           sort_input |-> SortInput(fused_all, fused, reranker, self_.docs, rr),
           results |-> results,
           embed_calls |-> 1 + (IF explain THEN Len(results) ELSE 0),
           rerank_calls |-> IF reranker THEN 1 ELSE 0]

\* whether a call with these answers reaches reranker.predict
ReachesRerank(self_, top_k, alpha, f, bm_scores, bm_top) ==
    /\ ~IndexesMissing(self_)
    /\ self_.use_reranker
    /\ DocsReadable(FusedTop(FuseAll(Candidates(f.I, bm_top), alpha, f.I, f.D, bm_scores),
                             InitialK(top_k, TRUE)),
                    self_.docs, self_.meta)

\* the retriever's fields
Self == [faiss_index |-> faiss_index, bm25 |-> bm25, docs |-> docs, meta |-> meta,
         use_reranker |-> use_reranker]

\* ------------------------------------------------------------------- text
\* A text is a sequence of symbols.  One symbol is one character, except that a
\* word the code looks for is one symbol:
\*   "[" "]" "." "?"           themselves ("." and "?" end a sentence)
\*   " " "n" "r"               a space, a newline, a carriage return (all match \s)
\*   "0" .. "9"                a digit
\*   "S" "s"                   Source, source
\*   "E" "K"                   External, Knowledge
\*   "A"                       Answer: (in any case)
\*   "F"                       Follow-up questions: (in any case)
\*   "D"                       a disclaimer phrase: not mentioned (in any case)
\*   "L"                       six words with single spaces between them
\*   "x"                       any other character that is not white space
Digits == {"0", "1", "2", "3", "4", "5", "6", "7", "8", "9"}
Spaces == {" ", "n", "r"}
Terminators == {".", "!", "?"}

DigitVal(c) ==
    CASE c = "0" -> 0 [] c = "1" -> 1 [] c = "2" -> 2 [] c = "3" -> 3 [] c = "4" -> 4
      [] c = "5" -> 5 [] c = "6" -> 6 [] c = "7" -> 7 [] c = "8" -> 8 [] c = "9" -> 9

\* int(c) of a string of digits
RECURSIVE IntOf(_)
IntOf(ds) ==
    IF Len(ds) = 0 THEN 0
    ELSE 10 * IntOf(SubSeq(ds, 1, Len(ds) - 1)) + DigitVal(ds[Len(ds)])

\* the end of the longest run of symbols of `set` that starts at p (p - 1 when none)
RECURSIVE RunEnd(_, _, _)
RunEnd(text, p, set) ==
    IF p <= Len(text) /\ text[p] \in set THEN RunEnd(text, p + 1, set) ELSE p - 1

\* text.strip()
RECURSIVE LStrip(_)
LStrip(text) ==
    IF Len(text) > 0 /\ text[1] \in Spaces THEN LStrip(Tail(text)) ELSE text
RECURSIVE RStrip(_)
RStrip(text) ==
    IF Len(text) > 0 /\ text[Len(text)] \in Spaces
    THEN RStrip(SubSeq(text, 1, Len(text) - 1)) ELSE text
Strip(text) == RStrip(LStrip(text))

\* whether `pat` stands in text at position p
MatchAt(text, p, pat) ==
    /\ p + Len(pat) - 1 <= Len(text)
    /\ \A k \in 1 .. Len(pat) : text[p + k - 1] = pat[k]

\* pat in text
Contains(text, pat) == \E p \in 1 .. Len(text) : MatchAt(text, p, pat)

\* the end of a match of \[Source (\d+)\] that starts at p (0 when there is none)
CitationEnd(text, p) ==
    IF MatchAt(text, p, <<"[", "S", " ">>)
    THEN LET e == RunEnd(text, p + 3, Digits)
         IN IF e >= p + 3 /\ e + 1 <= Len(text) /\ text[e + 1] = "]" THEN e + 1 ELSE 0
    ELSE 0

\* re.findall(r'\[Source (\d+)\]', text): the digit groups of the matches, left to right
RECURSIVE FindCitations(_, _)
FindCitations(text, p) ==
    IF p > Len(text) THEN <<>>
    ELSE LET e == CitationEnd(text, p)
         IN IF e > 0
            THEN <<SubSeq(text, p + 3, e - 1)>> \o FindCitations(text, e + 1)
            ELSE FindCitations(text, p + 1)

\* sorted(S) of a set of ints
RECURSIVE SortedSet(_)
SortedSet(S) ==
    IF S = {} THEN <<>>
    ELSE LET m == CHOOSE x \in S : \A y \in S : x <= y
         IN <<m>> \o SortedSet(S \ {m})

\* the citations in the order they appear, repeated as they are repeated
CitedInOrder(answer) ==
    LET found == FindCitations(answer, 1)
    IN [p \in 1 .. Len(found) |-> IntOf(found[p])]

\* sorted(cited_sources), cited_sources = set(int(c) for c in citations)
CitedSorted(answer) == SortedSet(Range(CitedInOrder(answer)))

\* len(text) of a chunk's text, and text[:k]
TextLen(t) == IF t % 2 = 0 THEN 150 ELSE 450
Excerpt(t, k) == [text |-> t, len |-> Min(TextLen(t), k)]

\* span = text_full[:200] + "..." if len(text_full) > 200 else text_full
Span(t) == [text |-> t, len |-> Min(TextLen(t), 200), ellipsis |-> TextLen(t) > 200]

\* the source looked up as sources[source_id], the id taken for a list index
SourcePosByIndex(sources, source_id, p) ==
    IF source_id + 1 <= Len(sources) THEN source_id + 1 ELSE 0

\* next((s for s in sources if s["id"] == source_id), None): its position, 0 for None
RECURSIVE SourcePosFrom(_, _, _)
SourcePosFrom(sources, source_id, p) ==
    IF p > Len(sources) THEN 0
    ELSE IF sources[p].id = source_id THEN p
    ELSE SourcePosFrom(sources, source_id, p + 1)

\* the loop of _extract_evidence_map over the cited ids in the given order
RECURSIVE EvidenceFor(_, _, _)
EvidenceFor(ids, sources, p) ==
    IF p > Len(ids) THEN <<>>
    ELSE LET q == SourcePosFrom(sources, ids[p], 1)
         IN (IF q > 0
             THEN <<[id |-> ids[p],
                     source_title |-> sources[q].title,
                     span |-> Span(sources[q].text_full)]>>
             ELSE <<>>) \o EvidenceFor(ids, sources, p + 1)

\* the evidence map with the cited ids taken in the order of the tags
ExtractEvidenceInOrder(answer, sources) == EvidenceFor(CitedInOrder(answer), sources, 1)

\* RAGPipeline._extract_evidence_map(answer, sources)
ExtractEvidenceMap(answer, sources) == EvidenceFor(CitedSorted(answer), sources, 1)

\* re.sub(r'^Answer:\s*', '', answer, flags=re.IGNORECASE)
DropLeadingLabel(text, label) ==
    IF Len(text) > 0 /\ text[1] = label
    THEN SubSeq(text, RunEnd(text, 2, Spaces) + 1, Len(text))
    ELSE text

\* re.sub(r'\n\s*Answer:\s*', '\n', answer, flags=re.IGNORECASE)
RECURSIVE DropInnerLabels(_, _)
DropInnerLabels(text, p) ==
    IF p > Len(text) THEN <<>>
    ELSE LET e == RunEnd(text, p + 1, Spaces)
         IN IF text[p] = "n" /\ e + 1 <= Len(text) /\ text[e + 1] = "A"
            THEN <<"n">> \o DropInnerLabels(text, RunEnd(text, e + 2, Spaces) + 1)
            ELSE <<text[p]>> \o DropInnerLabels(text, p + 1)

\* answer = response["choices"][0]["text"].strip(), then the two substitutions
CleanAnswer(raw) == DropInnerLabels(DropLeadingLabel(Strip(raw), "A"), 1)

\* followups: strip, then re.sub(r'^Follow-up questions?:\s*', '', ...)
CleanFollowups(raw) == DropLeadingLabel(Strip(raw), "F")

\* has_external = "[External Knowledge]" in answer or "[External]" in answer
HasExternal(answer) ==
    \/ Contains(answer, <<"[", "E", " ", "K", "]">>)
    \/ Contains(answer, <<"[", "E", "]">>)

\* re.sub(r'[\r]+', '', answer)
RECURSIVE Normalize(_)
Normalize(text) ==
    IF Len(text) = 0 THEN <<>>
    ELSE (IF text[1] = "r" THEN <<>> ELSE <<text[1]>>) \o Normalize(Tail(text))

\* re.split(r'(?<=[.!?])\s+', text): the pieces between the runs of white space
\* that follow a sentence terminator; `from` is where the current piece starts
RECURSIVE SplitSentences(_, _, _)
SplitSentences(text, from, p) ==
    IF p > Len(text) THEN <<SubSeq(text, from, Len(text))>>
    ELSE IF p > 1 /\ text[p - 1] \in Terminators /\ text[p] \in Spaces
         THEN LET e == RunEnd(text, p, Spaces)
              IN <<SubSeq(text, from, p - 1)>> \o SplitSentences(text, e + 1, e + 1)
         ELSE SplitSentences(text, from, p + 1)

\* s.replace('\n', ' ')
NewlinesToSpaces(text) == [p \in 1 .. Len(text) |-> IF text[p] = "n" THEN " " ELSE text[p]]

\* the words a symbol adds beyond the one it is part of
ExtraWords(c) == IF c = "L" THEN 5 ELSE IF c \in {"D", "F"} THEN 1 ELSE 0

\* len(s.split())
RECURSIVE WordCountFrom(_, _)
WordCountFrom(text, p) ==
    IF p > Len(text) THEN 0
    ELSE IF text[p] \in Spaces THEN WordCountFrom(text, p + 1)
    ELSE (IF p = 1 \/ text[p - 1] \in Spaces THEN 1 ELSE 0)
         + ExtraWords(text[p]) + WordCountFrom(text, p + 1)
WordCount(text) == WordCountFrom(text, 1)

\* the pass with the length test off by one: more than 7 words
IsUncitedClaimOffByOne(sent) ==
    LET s0 == Strip(sent)
        s1 == Strip(NewlinesToSpaces(s0))
    IN /\ Len(s0) > 0
       /\ ~(s0[1] = "F")
       /\ ~(Len(s0) >= 3 /\ s0[1] \in {"1", "2", "3"} /\ s0[2] = "." /\ s0[3] \in Spaces)
       /\ ~(\E p \in 1 .. Len(s1) : CitationEnd(s1, p) > 0)
       /\ ~Contains(s1, <<"[", "E">>)
       /\ ~Contains(s1, <<"D">>)
       /\ WordCount(s1) > 7

\* one pass of the loop of _check_for_uncited_claims: whether the piece is counted
IsUncitedClaim(sent) ==
    LET s0 == Strip(sent)
        s1 == Strip(NewlinesToSpaces(s0))
    IN /\ Len(s0) > 0
       /\ ~(s0[1] = "F")
       /\ ~(Len(s0) >= 3 /\ s0[1] \in {"1", "2", "3"} /\ s0[2] = "." /\ s0[3] \in Spaces)
       /\ ~(\E p \in 1 .. Len(s1) : CitationEnd(s1, p) > 0)
       /\ ~Contains(s1, <<"[", "E">>)
       /\ ~Contains(s1, <<"D">>)
       /\ WordCount(s1) > 6

\* RAGPipeline._check_for_uncited_claims(answer)
CheckForUncitedClaims(answer) ==
    LET raw_sentences == SplitSentences(Normalize(answer), 1, 1)
    IN \E p \in 1 .. Len(raw_sentences) : IsUncitedClaim(raw_sentences[p])

\* ---------------------------------------------------------------- actions
\* the defaults of search: top_k=3, rerank_k=3, alpha=0.65, cut to the bounds
DefaultCfg == [top_k |-> MaxTopK, rerank_k |-> MaxRerankK, hybrid_alpha |-> DefaultAlpha]

FileStates == {"missing", "ok", "corrupt"}

\* HybridRetriever.__init__ with _load_indexes: a file that is absent leaves its
\* field at the default; pickle.load / faiss.read_index of a file that cannot be
\* read raises out of the constructor.
Construct ==
    /\ constructed = "new"
    /\ \E bm25_pkl, faiss_file, docs_pkl, meta_pkl \in FileStates, reranker \in BOOLEAN :
         IF "corrupt" \in {bm25_pkl, faiss_file, docs_pkl, meta_pkl}
         THEN /\ constructed' = "raised"
              /\ UNCHANGED <<faiss_index, bm25, docs, meta, use_reranker>>
         ELSE LET docs_ == IF docs_pkl = "ok" THEN [p \in 1 .. NumChunks |-> p - 1]
                           ELSE <<>>
              IN /\ constructed' = "ok"
                 /\ bm25' = IF bm25_pkl = "ok" THEN "loaded" ELSE "None"
                 /\ faiss_index' = IF faiss_file = "ok" THEN "loaded" ELSE "None"
                 /\ docs' = docs_
                 /\ meta' = IF meta_pkl = "ok"
                            THEN [p \in 1 .. NumChunks |-> FileTitle(p - 1)]
                            ELSE [p \in 1 .. Len(docs_) |-> UnknownTitle]
                 /\ use_reranker' = reranker
    /\ UNCHANGED <<cfg, call, session>>

\* a search that keeps of the chunk list only what comes after the first chunk
SearchDropsChunk ==
    /\ docs' = IF Len(docs) > 0 THEN Tail(docs) ELSE docs
    /\ UNCHANGED <<constructed, faiss_index, bm25, meta, use_reranker, cfg, session>>

\* what search assigns of the retriever's fields: it only reads self.faiss_index,
\* self.bm25, self.docs, self.meta, self.use_reranker
SearchWrites ==
    UNCHANGED <<constructed, faiss_index, bm25, docs, meta, use_reranker, cfg, session>>

\* retriever.search(query, top_k, rerank_k, alpha, explain): the query is
\* present as what the embedding, the two indexes and the cross-encoder answer
\* for it, each drawn when the call gets to ask.
Search ==
    /\ constructed = "ok"
    /\ call = NoCall
    /\ \E top_k \in 1 .. MaxTopK, rerank_k \in 1 .. MaxRerankK,
          alpha \in Alphas, explain \in BOOLEAN :
         IF IndexesMissing(Self)
         THEN call' = search(Self, top_k, rerank_k, alpha, explain,
                             NoFaiss, <<>>, {}, NoRerank)
         ELSE \E dense \in DenseFns, bm \in [Chunks -> BmVals] :
                \E f \in FaissSearch(dense, InitialK(top_k, use_reranker)),
                   bt \in BmTop(BmScores(bm), rerank_k) :
                  IF ReachesRerank(Self, top_k, alpha, f, BmScores(bm), bt)
                  THEN \E rr \in [Chunks -> RerankVals] :
                         call' = search(Self, top_k, rerank_k, alpha, explain,
                                        f, BmScores(bm), bt, rr)
                  ELSE call' = search(Self, top_k, rerank_k, alpha, explain,
                                      f, BmScores(bm), bt, NoRerank)
    /\ SearchWrites

\* the caller is done with what the call returned (or has seen it raise)
Discard ==
    /\ call # NoCall
    /\ call' = NoCall
    /\ UNCHANGED <<constructed, faiss_index, bm25, docs, meta, use_reranker, cfg, session>>

Init ==
    /\ constructed = "new"
    /\ faiss_index = "None"
    /\ bm25 = "None"
    /\ docs = <<>>
    /\ meta = <<>>
    /\ use_reranker = FALSE
    /\ cfg = DefaultCfg
    /\ session = NoSession
    /\ call = NoCall

Next == Construct \/ Search \/ Discard

Spec == Init /\ [][Next]_vars

\* ------------------------------------------------------ RAGPipeline.query
\* Two questions stand for the queries; what the embedding, the lexical index
\* and the cross-encoder answer is a function of the question and the corpus.
\* A query text is a pair <<question, what is appended to it>>, "" for nothing;
\* a question is a text.  Short questions and longer ones are answered
\* differently by the indexes, and so are a question and the same question
\* with a suffix.
Questions == {<<"x", "?">>, <<"x", " ", "x", "?">>}
IsShort(question) == Len(question) <= 2
DenseFor(q) == [c \in Chunks |-> IF IsShort(q[1]) = (q[2] = "") THEN DenseLevels[c + 1]
                                 ELSE DenseLevels[NumChunks - c]]
BmFor(q) == [c \in Chunks |-> IF (IsShort(q[1]) /\ q[2] = "") \/ c = 0 THEN 8 ELSE 0]
RrFor(q) == [c \in Chunks |-> IF IsShort(q[1]) /\ q[2] = "" /\ c = 0 THEN 4 ELSE 19]

\* retrieval asked with the text that goes into the prompt
SearchQueryStyled(question, prompt_suffix) == <<question, prompt_suffix>>

\* the first argument of self.retriever.search(question, ...): the question alone
SearchQuery(question, prompt_suffix) == <<question, "">>

\* f"Question: {question}{prompt_suffix}" of the prompt
PromptQuestion(question, prompt_suffix) == <<question, prompt_suffix>>

\* the style suffixes of app.py ("" when none is given)
Suffixes == {"", " Provide a concise 1-2 sentence answer."}

\* what the generation service may give back for the answer prompt ...
LlmAnswers ==
    {<<"A", " ", "L", " ", "x", " ", "[", "S", " ", "1", "]", ".", "n">>,
     <<"L", " ", "x", ".", " ", "[", "S", " ", "2", "]", " ", "[", "S", " ", "1", "]">>,
     <<"x", " ", "[", "E", " ", "K", "]", ".">>,
     <<"[", "S", " ", "3", "]", "n", "A", " ", "x">>,
     <<"x", " ", "x", " ", "[", "S", " ", "2", "]", ".">>,
     <<>>}
\* ... and for the follow-up prompt
LlmFollowups ==
    {<<"F", " ", "1", ".", " ", "x", "?", "n", "2", ".", " ", "x", "?">>,
     <<>>}
\* a call of the generation service gives a text or raises
Raises == [raised |-> TRUE, text |-> <<>>]
Gives(t) == [raised |-> FALSE, text |-> t]
AnswerOutcomes == {Gives(t) : t \in LlmAnswers} \cup {Raises}
FollowupOutcomes == {Gives(t) : t \in LlmFollowups} \cup {Raises}
\* a rationale call ends in a text, an empty text or an exception
RationaleOutcomes == {"text", "empty", "raise"}

ErrorAnswer == <<"LLM error">>

\* sources numbered by the chunk's id in the corpus instead of the position
SourcesByChunkId(retrieved) ==
    [p \in 1 .. Len(retrieved) |->
        [id |-> retrieved[p].chunk + 1,
         title |-> retrieved[p].title,
         score |-> retrieved[p].score,
         text_full |-> retrieved[p].text,
         text_snippet |-> Excerpt(retrieved[p].text, 200),
         explain |-> retrieved[p].explain,
         llm_reasoning |-> "none",
         chunk |-> retrieved[p].chunk]]

\* sources = [{"id": i + 1, "title": ..., "score": ..., "text_full": ...,
\*             "text_snippet": r["text"][:200], "explain": r.get("explain", {})}]
\* llm_reasoning is the entry query adds to explain; `chunk` is not in the dictionary
Sources(retrieved) ==
    [p \in 1 .. Len(retrieved) |->
        [id |-> p,
         title |-> retrieved[p].title,
         score |-> retrieved[p].score,
         text_full |-> retrieved[p].text,
         text_snippet |-> Excerpt(retrieved[p].text, 200),
         explain |-> retrieved[p].explain,
         llm_reasoning |-> "none",
         chunk |-> retrieved[p].chunk]]

\* context_text: "[Source {i+1}] {title}\n{text[:400]}" per retrieved chunk
\* the blocks labelled with the chunk id (from 1) instead of the position
ContextTextByChunk(retrieved) ==
    [p \in 1 .. Len(retrieved) |->
        [label |-> retrieved[p].chunk + 1, title |-> retrieved[p].title,
         excerpt |-> Excerpt(retrieved[p].text, 400)]]

ContextText(retrieved) ==
    [p \in 1 .. Len(retrieved) |->
        [label |-> p, title |-> retrieved[p].title,
         excerpt |-> Excerpt(retrieved[p].text, 400)]]

\* _explain_relevance_llm: the explanation, a stock sentence for an empty one,
\* an error message when the call raises
ExplainRelevance(outcome) ==
    CASE outcome = "text" -> "explanation"
      [] outcome = "empty" -> "Provides relevant contextual information."
      [] outcome = "raise" -> "Error generating explanation"

\* the loop left at the first rationale call that fails: the sources after it
\* keep no rationale
WithReasoningUntilFailure(sources, rationales) ==
    [p \in 1 .. Len(sources) |->
        IF \E q \in 1 .. (p - 1) : rationales[q] = "raise"
        THEN sources[p]
        ELSE [sources[p] EXCEPT !.llm_reasoning = ExplainRelevance(rationales[p])]]

\* the loop over sources under `if explain`
WithReasoning(sources, rationales) ==
    [p \in 1 .. Len(sources) |->
        [sources[p] EXCEPT !.llm_reasoning = ExplainRelevance(rationales[p])]]

\* _generate_followups: the cleaned text, "" when the call raises
GenerateFollowups(followup) ==
    IF followup.raised THEN <<>> ELSE CleanFollowups(followup.text)

\* an except branch that hands back the sources gathered before the failure
ExceptResultKeepsSources(sources) ==
    [answer |-> ErrorAnswer, sources |-> sources, evidence_map |-> <<>>,
     has_external_knowledge |-> FALSE, uncited_warning |-> FALSE,
     followup_questions |-> <<>>]

\* the except branch of query: the sources built before the try block are dropped
ExceptResult(sources) ==
    [answer |-> ErrorAnswer, sources |-> <<>>, evidence_map |-> <<>>,
     has_external_knowledge |-> FALSE, uncited_warning |-> FALSE,
     followup_questions |-> <<>>]

NoResult == [answer |-> <<>>, sources |-> <<>>, evidence_map |-> <<>>,
             has_external_knowledge |-> FALSE, uncited_warning |-> FALSE,
             followup_questions |-> <<>>]

\* the steps of the try block in the order they run, as far as the call got
\* the steps in the order of the stages: all of the post-processing before the
\* first rationale call
StepsPostFirst(sources, explain, generate_followups, primary) ==
    <<[step |-> "llm", kind |-> "answer", source |-> 0]>>
    \o (IF primary.raised THEN <<>>
        ELSE <<[step |-> "evidence_map", kind |-> "post", source |-> 0],
               [step |-> "has_external", kind |-> "post", source |-> 0],
               [step |-> "uncited_claims", kind |-> "post", source |-> 0]>>
             \o (IF explain
                 THEN [p \in 1 .. Len(sources) |->
                          [step |-> "llm", kind |-> "rationale", source |-> sources[p].id]]
                 ELSE <<>>)
             \o (IF generate_followups
                 THEN <<[step |-> "llm", kind |-> "followup", source |-> 0]>>
                 ELSE <<>>))

Steps(sources, explain, generate_followups, primary) ==
    <<[step |-> "llm", kind |-> "answer", source |-> 0]>>
    \o (IF primary.raised THEN <<>>
        ELSE <<[step |-> "evidence_map", kind |-> "post", source |-> 0]>>
             \o (IF explain
                 THEN [p \in 1 .. Len(sources) |->
                          [step |-> "llm", kind |-> "rationale", source |-> sources[p].id]]
                 ELSE <<>>)
             \o <<[step |-> "has_external", kind |-> "post", source |-> 0],
                  [step |-> "uncited_claims", kind |-> "post", source |-> 0]>>
             \o (IF generate_followups
                 THEN <<[step |-> "llm", kind |-> "followup", source |-> 0]>>
                 ELSE <<>>))

\* The frame of one query call: r is the frame of its search call, primary what
\* the generation service gives for the answer prompt,
\* rationales[p] how the rationale call for source p ends, followup what the
\* follow-up call gives (each a text or an exception).
query(question, prompt_suffix, explain, generate_followups, r, primary, rationales, followup) ==
    LET given == [op |-> "query", question |-> question,
                  search_query |-> SearchQuery(question, prompt_suffix),
                  prompt_suffix |-> prompt_suffix, explain |-> explain,
                  generate_followups |-> generate_followups, search |-> r,
                  primary_raised |-> primary.raised, primary |-> primary,
                  rationales |-> rationales, followup |-> followup]
    IN
    IF r.outcome = "raised"
    THEN given @@ [outcome |-> "raised", retrieved |-> <<>>, context |-> <<>>,
                   prompt_question |-> PromptQuestion(question, prompt_suffix),
                   steps |-> <<>>, result |-> NoResult]
    ELSE
    LET retrieved == r.results
        sources == Sources(retrieved)
        context == ContextText(retrieved)
        built == given @@ [outcome |-> "returned", retrieved |-> retrieved,
                           context |-> context,
                           prompt_question |-> PromptQuestion(question, prompt_suffix),
                           steps |-> Steps(sources, explain, generate_followups, primary)]
    IN IF primary.raised
       THEN built @@ [result |-> ExceptResult(sources)]
       ELSE
       LET answer == CleanAnswer(primary.text)
       IN built @@
          [result |->
             [answer |-> answer,
              sources |-> IF explain THEN WithReasoning(sources, rationales) ELSE sources,
              evidence_map |-> ExtractEvidenceMap(answer, sources),
              has_external_knowledge |-> HasExternal(answer),
              uncited_warning |-> CheckForUncitedClaims(answer),
              followup_questions |-> IF generate_followups
                                     THEN GenerateFollowups(followup) ELSE <<>>]]

\* rag.query(question, prompt_suffix, explain, generate_followups): retrieval with
\* the configured top_k, rerank_k and hybrid_alpha, then generation; each service
\* is asked only when the call gets to it.
Query ==
    /\ constructed = "ok"
    /\ call = NoCall
    /\ \E question \in Questions, prompt_suffix \in Suffixes,
          explain \in BOOLEAN, generate_followups \in BOOLEAN :
         \E f \in IF IndexesMissing(Self) THEN {NoFaiss}
                  ELSE FaissSearch(DenseFor(SearchQuery(question, prompt_suffix)),
                                   InitialK(cfg.top_k, use_reranker)),
            bt \in IF IndexesMissing(Self) THEN {{}}
                   ELSE BmTop(BmScores(BmFor(SearchQuery(question, prompt_suffix))),
                              cfg.rerank_k) :
           LET bm_scores == IF IndexesMissing(Self) THEN <<>>
                            ELSE BmScores(BmFor(SearchQuery(question, prompt_suffix)))
               r == search(Self, cfg.top_k, cfg.rerank_k, cfg.hybrid_alpha, explain,
                           f, bm_scores, bt, RrFor(SearchQuery(question, prompt_suffix)))
           IN IF r.outcome = "raised"
              THEN call' = query(question, prompt_suffix, explain, generate_followups,
                                 r, Raises, <<>>, Raises)
              ELSE \E primary \in AnswerOutcomes :
                     \E rationales \in IF explain /\ ~primary.raised
                                       THEN [1 .. Len(r.results) -> RationaleOutcomes]
                                       ELSE {<<>>},
                        followup \in IF generate_followups /\ ~primary.raised
                                     THEN FollowupOutcomes ELSE {Raises} :
                       call' = query(question, prompt_suffix, explain, generate_followups,
                                     r, primary, rationales, followup)
    /\ UNCHANGED <<constructed, faiss_index, bm25, docs, meta, use_reranker, cfg, session>>

\* --------------------------------------------- _extract_evidence_map alone
\* the pieces the answers given to _extract_evidence_map are put together from
EvidenceFrags ==
    {<<"[", "S", " ", "1", "]">>, <<"[", "S", " ", "2", "]">>, <<"[", "S", " ", "3", "]">>,
     <<"[", "S", " ", "0", "1", "]">>, <<"[", "s", " ", "1", "]">>, <<"[", "S", "n", "2", "]">>,
     <<"[", "S", " ", "2">>, <<"1">>, <<"]">>, <<"x", " ">>}

RECURSIVE TextsOf(_)
TextsOf(k) ==
    IF k = 0 THEN {<<>>}
    ELSE LET shorter == TextsOf(k - 1)
         IN shorter \cup {t \o f : t \in shorter, f \in EvidenceFrags}

\* a source list as query builds it, for k retrieved chunks (best chunk last in the corpus)
SourcesOfLen(k) ==
    Sources([p \in 1 .. k |->
                [chunk |-> k - p, text |-> k - p, title |-> FileTitle(k - p),
                 score |-> 0, explain |-> NoExplain]])

InitEvidence ==
    /\ constructed = "new"
    /\ faiss_index = "None"
    /\ bm25 = "None"
    /\ docs = <<>>
    /\ meta = <<>>
    /\ use_reranker = FALSE
    /\ cfg = DefaultCfg
    /\ session = NoSession
    /\ \E answer \in TextsOf(MaxFrags), k \in 0 .. MaxSources :
         call = [op |-> "given", answer |-> answer, sources |-> SourcesOfLen(k)]

\* self._extract_evidence_map(answer, sources)
ExtractEvidence ==
    /\ call.op = "given"
    /\ call' = [op |-> "evidence", answer |-> call.answer, sources |-> call.sources,
                evidence_map |-> ExtractEvidenceMap(call.answer, call.sources)]
    /\ UNCHANGED <<constructed, faiss_index, bm25, docs, meta, use_reranker, cfg, session>>

NextEvidence == ExtractEvidence

SpecEvidence == InitEvidence /\ [][NextEvidence]_vars

\* ----------------------------------------- _check_for_uncited_claims alone
\* the pieces the answers given to _check_for_uncited_claims are put together from
UncitedFrags ==
    {<<"L", " ", "x">>, <<"L">>, <<"x">>, <<".", " ">>, <<"?", "n">>, <<".">>,
     <<" ", "[", "E", " ", "K", "]">>, <<" ", "[", "S", " ", "1", "]">>,
     <<" ", "D">>, <<"F", " ">>, <<"1", ".", " ">>, <<"n">>, <<"r">>}

RECURSIVE AnswersOf(_)
AnswersOf(k) ==
    IF k = 0 THEN {<<>>}
    ELSE LET shorter == AnswersOf(k - 1)
         IN shorter \cup {t \o f : t \in shorter, f \in UncitedFrags}

InitUncited ==
    /\ constructed = "new"
    /\ faiss_index = "None"
    /\ bm25 = "None"
    /\ docs = <<>>
    /\ meta = <<>>
    /\ use_reranker = FALSE
    /\ cfg = DefaultCfg
    /\ session = NoSession
    /\ \E answer \in AnswersOf(MaxFrags) : call = [op |-> "answer", answer |-> answer]

\* self._check_for_uncited_claims(answer)
CheckUncited ==
    /\ call.op = "answer"
    /\ call' = [op |-> "uncited", answer |-> call.answer,
                uncited_warning |-> CheckForUncitedClaims(call.answer)]
    /\ UNCHANGED <<constructed, faiss_index, bm25, docs, meta, use_reranker, cfg, session>>

NextUncited == CheckUncited

SpecUncited == InitUncited /\ [][NextUncited]_vars

\* the configurations a pipeline is built with
Cfgs == [top_k : 1 .. MaxTopK, rerank_k : 1 .. MaxRerankK, hybrid_alpha : Alphas]

\* RAGPipeline(cfg) is about to build its retriever
InitPipeline ==
    /\ constructed = "new"
    /\ faiss_index = "None"
    /\ bm25 = "None"
    /\ docs = <<>>
    /\ meta = <<>>
    /\ use_reranker = FALSE
    /\ cfg \in Cfgs
    /\ session = NoSession
    /\ call = NoCall

NextPipeline == Construct \/ Query \/ Discard

SpecPipeline == InitPipeline /\ [][NextPipeline]_vars

\* ----------------------------------------------------------------- app.py
\* In the texts of this part a word the code looks for is one symbol:
\*   "/exit" "/EXIT"           the exit command, in lower and in upper case
\*   "b" "B"                   a topic word of the blocked list, in lower and in
\*                             another case
\*   "concise" "CONCISE" ...   a style name
\*   "y" "Y"                   the letter
\*   "-" ")" ":"               themselves

\* c.lower() of a symbol
LowerSym(c) ==
    CASE c = "/EXIT" -> "/exit"
      [] c = "B" -> "b"
      [] c = "CONCISE" -> "concise"
      [] c = "Y" -> "y"
      [] c = "S" -> "s"
      [] OTHER -> c

\* text.lower()
Lower(text) == [p \in 1 .. Len(text) |-> LowerSym(text[p])]

\* style_templates of query_rag and of chat
StyleTemplates ==
    [key \in {"concise", "detailed", "bullet", "code"} |->
        CASE key = "concise" -> " Provide a concise 1-2 sentence answer."
          [] key = "detailed" -> " Provide a detailed answer with examples and explanations."
          [] key = "bullet" -> " Provide the answer as a short bullet list."
          [] key = "code" -> " Provide an example code snippet if applicable and explain briefly."]

\* the string a typed line is, once stripped and lowered, when it is one word
KeyOf(typed) ==
    LET t == Lower(Strip(typed))
    IN IF Len(t) = 1 THEN t[1] ELSE ""

\* `if style not in style_templates`: the template of a known key, else the
\* warning "Unknown style ..., defaulting to 'detailed'" and the detailed one
ResolveStyle(key) ==
    IF key \in DOMAIN StyleTemplates
    THEN [prompt_suffix |-> StyleTemplates[key], warning |-> FALSE]
    ELSE [prompt_suffix |-> StyleTemplates["detailed"], warning |-> TRUE]

\* the except branch around input(): detailed, nothing printed
StyleOnEof == [prompt_suffix |-> StyleTemplates["detailed"], warning |-> FALSE]

\* the style asked interactively: input(...).strip().lower(), then as above
AskStyle(typed) ==
    IF typed.raised THEN StyleOnEof ELSE ResolveStyle(KeyOf(typed.text))

\* what is typed at a style prompt; Raises is input() failing
StyleInputs == {Gives(<<" ", "CONCISE">>), Gives(<<"fancy">>), Raises}

\* what is typed at the justification prompt
JustifyInputs == {Gives(<<"Y">>), Gives(<<>>), Raises}

\* followup_questions.split('\n'): the lines from position `from` on
RECURSIVE SplitLines(_, _, _)
SplitLines(text, from, p) ==
    IF p > Len(text) THEN <<SubSeq(text, from, Len(text))>>
    ELSE IF text[p] = "n"
         THEN <<SubSeq(text, from, p - 1)>> \o SplitLines(text, p + 1, p + 1)
         ELSE SplitLines(text, from, p + 1)

\* [line.strip() for line in lines if line.strip() and
\*  (line.strip()[0].isdigit() or line.strip().startswith('-'))]
RECURSIVE ListLines(_)
ListLines(lines) ==
    IF Len(lines) = 0 THEN <<>>
    ELSE LET l == Strip(Head(lines))
         IN (IF Len(l) > 0 /\ (l[1] \in Digits \/ l[1] = "-") THEN <<l>> ELSE <<>>)
            \o ListLines(Tail(lines))

\* the list stored for a follow-up text
ParseFollowups(followup_questions) == ListLines(SplitLines(followup_questions, 1, 1))

\* the characters of lstrip('0123456789.-) ')
MarkerChars == Digits \cup {".", "-", ")", " "}

\* line.lstrip('0123456789.-) ').strip()
StripMarker(line) == Strip(SubSeq(line, RunEnd(line, 1, MarkerChars) + 1, Len(line)))

\* the selections of the follow-up prompts
Selections == {<<"1">>, <<"2">>, <<"3">>}

\* lines 328-333 of chat: has_last is 'last_followup_lines' in locals()
ChatQuestion(q, has_last, last_followup_lines) ==
    IF Strip(q) \in Selections /\ has_last /\ Len(last_followup_lines) > 0
    THEN LET idx == IntOf(Strip(q)) - 1
         IN IF idx < Len(last_followup_lines)
            THEN StripMarker(last_followup_lines[idx + 1])
            ELSE q
    ELSE q

\* `if followup_questions:` with the parse under it: the list of a result
StoredFollowups(followup_questions) ==
    IF Len(followup_questions) > 0 THEN ParseFollowups(followup_questions) ELSE <<>>

\* a chat that keeps the list it has when a turn gives no follow-up text
LastFollowupsKept(last_followup_lines, followup_questions) ==
    IF Len(followup_questions) > 0 THEN ParseFollowups(followup_questions)
    ELSE last_followup_lines

\* lines 348-357 of chat: last_followup_lines after a turn
LastFollowups(last_followup_lines, followup_questions) ==
    IF Len(followup_questions) > 0 THEN ParseFollowups(followup_questions) ELSE <<>>

\* Guardrails.blocked_topics as configured
BlockedTopics == <<<<"B">>>>

\* Guardrails.check_query_safety(query): the topics are tried in order
RECURSIVE CheckQuerySafetyFrom(_, _, _)
CheckQuerySafetyFrom(blocked_topics, question, p) ==
    IF p > Len(blocked_topics) THEN [is_safe |-> TRUE, reason |-> <<>>]
    ELSE IF Contains(Lower(question), Lower(blocked_topics[p]))
         THEN [is_safe |-> FALSE, reason |-> blocked_topics[p]]
         ELSE CheckQuerySafetyFrom(blocked_topics, question, p + 1)
CheckQuerySafety(blocked_topics, question) == CheckQuerySafetyFrom(blocked_topics, question, 1)

\* what the generation service gives in the commands of app.py
AppAnswerOutcomes ==
    {Gives(<<"L", " ", "x", " ", "[", "S", " ", "1", "]", ".">>), Raises}
AppFollowupOutcomes ==
    {Gives(<<"F", " ", "1", ".", " ", "x", "?", "n", "2", ".", " ", "x", " ", "x", "?">>),
     Gives(<<"x", ":", "n", "-", " ", "B", " ", "x", "?", "n", "n", "-", " ", "2", " ", "x", "?">>),
     Gives(<<"x", " ", "x", "?">>),
     Gives(<<>>),
     Raises}

\* what is typed at the prompt of a chat turn; Raises is input() failing
ChatInputs ==
    {Gives(<<"/EXIT", " ">>), Gives(<<"1">>), Gives(<<" ", "2">>), Gives(<<"3">>),
     Gives(<<"x", "?">>), Gives(<<"B", " ", "x", "?">>), Raises}

\* the frames rag.query(question, prompt_suffix, explain=explain) of a command
\* can end in: generate_followups keeps its default, every rationale call that
\* is made gives a text
AppQueryFrames(question, prompt_suffix, explain) ==
    LET sq == SearchQuery(question, prompt_suffix)
        missing == IndexesMissing(Self)
        bm_scores == IF missing THEN <<>> ELSE BmScores(BmFor(sq))
        searches ==
            {search(Self, cfg.top_k, cfg.rerank_k, cfg.hybrid_alpha, explain,
                    f, bm_scores, bt, RrFor(sq)) :
                f \in IF missing THEN {NoFaiss}
                      ELSE FaissSearch(DenseFor(sq), InitialK(cfg.top_k, use_reranker)),
                bt \in IF missing THEN {{}} ELSE BmTop(bm_scores, cfg.rerank_k)}
    IN UNION {IF r.outcome = "raised"
              THEN {query(question, prompt_suffix, explain, TRUE, r, Raises, <<>>, Raises)}
              ELSE UNION {{query(question, prompt_suffix, explain, TRUE, r, primary,
                                 IF explain /\ ~primary.raised
                                 THEN [p \in 1 .. Len(r.results) |-> "text"] ELSE <<>>,
                                 followup) :
                              followup \in IF primary.raised THEN {Raises}
                                           ELSE AppFollowupOutcomes} :
                          primary \in AppAnswerOutcomes} :
              r \in searches}

\* chat() from its style prompt to the start of the loop; rag = RAGPipeline(CFG)
\* before it is the Construct step.  The save prompt and the history file it
\* governs are not part of the state.
ChatSetup ==
    /\ constructed = "ok"
    /\ session = NoSession
    /\ call = NoCall
    /\ \E style_choice \in StyleInputs, j \in JustifyInputs :
         LET style == AskStyle(style_choice)
         IN session' = [mode |-> "chat",
                        prompt_suffix |-> style.prompt_suffix,
                        style_warning |-> style.warning,
                        justify_session |-> ~j.raised /\ KeyOf(j.text) = "y",
                        has_last |-> FALSE,
                        last_followup_lines |-> <<>>]
    /\ UNCHANGED <<constructed, faiss_index, bm25, docs, meta, use_reranker, cfg, call>>

\* one pass of the loop of chat(): input, /exit, follow-up selection, rag.query,
\* the list stored for the next turn; an exception of input() or of rag.query
\* leaves the command
ChatTurn ==
    /\ session.mode = "chat"
    /\ \E typed \in ChatInputs :
         IF typed.raised
         THEN /\ call' = [op |-> "chat_crash"]
              /\ session' = [mode |-> "crashed"]
         ELSE IF Lower(Strip(typed.text)) = <<"/exit">>
         THEN /\ call' = [op |-> "chat_exit"]
              /\ session' = [mode |-> "ended"]
         ELSE LET question == ChatQuestion(typed.text, session.has_last,
                                           session.last_followup_lines)
              IN \E qf \in AppQueryFrames(question, session.prompt_suffix,
                                          session.justify_session) :
                   /\ call' = [op |-> "chat_turn", input |-> typed.text, rag |-> qf]
                   /\ session' =
                        IF qf.outcome = "raised" THEN [mode |-> "crashed"]
                        ELSE [session EXCEPT
                                !.has_last = TRUE,
                                !.last_followup_lines =
                                    LastFollowups(session.last_followup_lines,
                                                  qf.result.followup_questions)]
    /\ UNCHANGED <<constructed, faiss_index, bm25, docs, meta, use_reranker, cfg>>

\* the questions and the --style values query-rag is started with
RagQuestions == {<<"x", "?">>, <<"B", " ", "x", "?">>}
StyleOptions == {"auto", "concise", "fancy"}

\* what is typed at the follow-up prompt of query_rag
ChoiceInputs ==
    {Gives(<<>>), Gives(<<"1">>), Gives(<<"3">>), Gives(<<" ", "x", " ", "x", "?">>), Raises}

\* a selection the loop of query_rag answers with "Invalid selection"
InvalidChoice(choice, followup_lines) ==
    /\ ~choice.raised
    /\ Strip(choice.text) \in Selections
    /\ IntOf(Strip(choice.text)) - 1 >= Len(followup_lines)

\* lines 189-216 of query_rag for a choice that ends the loop: the question the
\* command calls itself with, if it does
NextQuestion(choice, followup_lines) ==
    IF choice.raised \/ Len(Strip(choice.text)) = 0
    THEN [again |-> FALSE, question |-> <<>>]
    ELSE IF Strip(choice.text) \in Selections
    THEN [again |-> TRUE,
          question |-> StripMarker(followup_lines[IntOf(Strip(choice.text))])]
    ELSE [again |-> TRUE, question |-> Strip(choice.text)]

\* query_rag(question, justify=justify, style=style), the first call of a
\* command or the call it makes of itself for a follow-up: style resolution,
\* rag.query, the follow-up prompt.  RAGPipeline(CFG) at line 91 is the Construct
\* step: it reads nothing the style resolution before it writes, and a call for
\* a follow-up loads the same files again.  One rejected selection stands for any
\* number of them.
QueryRag ==
    /\ constructed = "ok"
    /\ session.mode \in {"none", "query_rag"}
    /\ session.mode = "none" => call = NoCall
    /\ \E question \in IF session.mode = "none" THEN RagQuestions ELSE {session.question},
          style \in IF session.mode = "none" THEN StyleOptions ELSE {session.style},
          justify \in IF session.mode = "none" THEN BOOLEAN ELSE {session.justify} :
         \E typed \in IF style = "auto" THEN StyleInputs ELSE {Raises} :
           LET resolved == IF style # "auto" THEN ResolveStyle(style) ELSE AskStyle(typed)
           IN \E qf \in AppQueryFrames(question, resolved.prompt_suffix, justify) :
                LET given == [op |-> "query_rag", question |-> question, style |-> style,
                              prompt_suffix |-> resolved.prompt_suffix,
                              style_warning |-> resolved.warning, rag |-> qf]
                IN IF qf.outcome = "raised"
                   THEN /\ call' = given @@ [followup_lines |-> <<>>, rejected |-> <<>>,
                                             choice |-> Raises, asked |-> FALSE]
                        /\ session' = [mode |-> "crashed"]
                   ELSE LET followup_lines == StoredFollowups(qf.result.followup_questions)
                        IN IF followup_lines = <<>>
                           THEN /\ call' = given @@ [followup_lines |-> <<>>,
                                                     rejected |-> <<>>,
                                                     choice |-> Raises, asked |-> FALSE]
                                /\ session' = [mode |-> "ended"]
                           ELSE \E first \in ChoiceInputs :
                                  \E choice \in IF InvalidChoice(first, followup_lines)
                                                THEN {c \in ChoiceInputs :
                                                        ~InvalidChoice(c, followup_lines)}
                                                ELSE {first} :
                                    LET next == NextQuestion(choice, followup_lines)
                                    IN /\ call' = given @@
                                            [followup_lines |-> followup_lines,
                                             rejected |-> IF choice = first THEN <<>>
                                                          ELSE <<first.text>>,
                                             choice |-> choice, asked |-> TRUE]
                                       /\ session' =
                                            IF next.again
                                            THEN [mode |-> "query_rag",
                                                  question |-> next.question,
                                                  style |-> style, justify |-> justify]
                                            ELSE [mode |-> "ended"]
    /\ UNCHANGED <<constructed, faiss_index, bm25, docs, meta, use_reranker, cfg>>

\* an alpha of 1.5 in the configuration file
BadAlpha == AlphaDen + 10

\* the configurations the commands are run with
AppCfgs == {DefaultCfg, [DefaultCfg EXCEPT !.hybrid_alpha = BadAlpha]}

\* chat is started
InitChat ==
    /\ constructed = "new"
    /\ faiss_index = "None"
    /\ bm25 = "None"
    /\ docs = <<>>
    /\ meta = <<>>
    /\ use_reranker = FALSE
    /\ cfg = DefaultCfg
    /\ session = NoSession
    /\ call = NoCall

NextChat == Construct \/ ChatSetup \/ ChatTurn

SpecChat == InitChat /\ [][NextChat]_vars

\* query-rag is started
InitQueryRag ==
    /\ constructed = "new"
    /\ faiss_index = "None"
    /\ bm25 = "None"
    /\ docs = <<>>
    /\ meta = <<>>
    /\ use_reranker = FALSE
    /\ cfg \in AppCfgs
    /\ session = NoSession
    /\ call = NoCall

NextQueryRag == Construct \/ QueryRag

SpecQueryRag == InitQueryRag /\ [][NextQueryRag]_vars

\* ------------------------------------------------------------ guardrails.py
\* redact_pii works on characters, so its texts are sequences of characters
\* that stand for themselves: "a" is the lower-case letter in them, the upper
\* case letters are those of the placeholders, " " is the white space.
PiiKinds == {"email", "phone", "ssn", "credit_card"}
UpperChars == {"R", "E", "D", "A", "C", "T", "M", "I", "L", "P", "H", "O", "N", "S"}
LetterChars == UpperChars \cup {"a"}
\* \w
WordChars == LetterChars \cup Digits \cup {"_"}
\* [-.\s]
SepChars == {"-", ".", " "}

\* \b before position p of text
AtBoundary(text, p) ==
    LET before == p > 1 /\ p - 1 <= Len(text) /\ text[p - 1] \in WordChars
        after == p >= 1 /\ p <= Len(text) /\ text[p] \in WordChars
    IN before # after

\* the items a pattern is a sequence of: \b, and a character class repeated
\* between min and max times (any number of times from min on when many)
WordBoundary == [b |-> TRUE, cls |-> {}, min |-> 0, max |-> 0, many |-> FALSE]
Times(cls, k) == [b |-> FALSE, cls |-> cls, min |-> k, max |-> k, many |-> FALSE]
Optional(cls) == [b |-> FALSE, cls |-> cls, min |-> 0, max |-> 1, many |-> FALSE]
AtLeast(cls, k) == [b |-> FALSE, cls |-> cls, min |-> k, max |-> k, many |-> TRUE]

\* r'\b[A-Za-z0-9._%+-]+@[A-Za-z0-9.-]+\.[A-Z|a-z]{2,}\b'
EmailPattern ==
    << <<WordBoundary,
         AtLeast(LetterChars \cup Digits \cup {".", "_", "%", "+", "-"}, 1),
         Times({"@"}, 1),
         AtLeast(LetterChars \cup Digits \cup {".", "-"}, 1),
         Times({"."}, 1),
         AtLeast(LetterChars \cup {"|"}, 2),
         WordBoundary>> >>

\* \(?\d{3}\)?[-.\s]?\d{3}[-.\s]?\d{4}\b
PhoneNumber ==
    <<Optional({"("}), Times(Digits, 3), Optional({")"}), Optional(SepChars),
      Times(Digits, 3), Optional(SepChars), Times(Digits, 4), WordBoundary>>

\* r'\b(\+?1[-.\s]?)?\(?\d{3}\)?[-.\s]?\d{3}[-.\s]?\d{4}\b': the optional
\* group is tried first, and the number without it when that fails
PhonePattern ==
    << <<WordBoundary, Optional({"+"}), Times({"1"}, 1), Optional(SepChars)>> \o PhoneNumber,
       <<WordBoundary>> \o PhoneNumber >>

\* r'\b\d{3}-\d{2}-\d{4}\b'
SsnPattern ==
    << <<WordBoundary, Times(Digits, 3), Times({"-"}, 1), Times(Digits, 2),
         Times({"-"}, 1), Times(Digits, 4), WordBoundary>> >>

\* r'\b\d{4}[-\s]?\d{4}[-\s]?\d{4}[-\s]?\d{4}\b'
CreditCardPattern ==
    << <<WordBoundary, Times(Digits, 4), Optional({"-", " "}), Times(Digits, 4),
         Optional({"-", " "}), Times(Digits, 4), Optional({"-", " "}), Times(Digits, 4),
         WordBoundary>> >>

\* the last position of the match of items i .. of `items` that starts at p,
\* as the backtracking engine finds it (longest repetitions first); -1 when
\* there is none
RECURSIVE MatchItems(_, _, _, _)
RECURSIVE MatchTimes(_, _, _, _, _)
MatchItems(items, i, text, p) ==
    IF i > Len(items) THEN p - 1
    ELSE IF items[i].b
         THEN IF AtBoundary(text, p) THEN MatchItems(items, i + 1, text, p) ELSE -1
         ELSE LET run == RunEnd(text, p, items[i].cls) - p + 1
                  most == IF items[i].many THEN run ELSE Min(run, items[i].max)
              IN MatchTimes(items, i, text, p, most)
MatchTimes(items, i, text, p, k) ==
    IF k < items[i].min THEN -1
    ELSE LET e == MatchItems(items, i + 1, text, p + k)
         IN IF e >= 0 THEN e ELSE MatchTimes(items, i, text, p, k - 1)

\* the same for a pattern, alternatives a .. in their order
RECURSIVE MatchPattern(_, _, _, _)
MatchPattern(pattern, a, text, p) ==
    IF a > Len(pattern) THEN -1
    ELSE LET e == MatchItems(pattern[a], 1, text, p)
         IN IF e >= 0 THEN e ELSE MatchPattern(pattern, a + 1, text, p)

\* re.sub(pattern, repl, text), from position p on
RECURSIVE SubFrom(_, _, _, _)
SubFrom(pattern, repl, text, p) ==
    IF p > Len(text) THEN <<>>
    ELSE LET e == MatchPattern(pattern, 1, text, p)
         IN IF e >= p
            THEN repl \o SubFrom(pattern, repl, text, e + 1)
            ELSE <<text[p]>> \o SubFrom(pattern, repl, text, p + 1)

PlaceholderBare(kind) ==
    CASE kind = "email" -> <<"R", "E", "D", "A", "C", "T", "E", "D", "_", "E", "M", "A", "I", "L">>
      [] kind = "phone" -> <<"R", "E", "D", "A", "C", "T", "E", "D", "_", "P", "H", "O", "N", "E">>
      [] kind = "ssn" -> <<"R", "E", "D", "A", "C", "T", "E", "D", "_", "S", "S", "N">>
      [] kind = "credit_card" -> <<"R", "E", "D", "A", "C", "T", "E", "D", "_", "C", "C">>

\* '[REDACTED_EMAIL]', '[REDACTED_PHONE]', '[REDACTED_SSN]', '[REDACTED_CC]'
Placeholder(kind) ==
    CASE kind = "email" ->
           <<"[", "R", "E", "D", "A", "C", "T", "E", "D", "_", "E", "M", "A", "I", "L", "]">>
      [] kind = "phone" ->
           <<"[", "R", "E", "D", "A", "C", "T", "E", "D", "_", "P", "H", "O", "N", "E", "]">>
      [] kind = "ssn" -> <<"[", "R", "E", "D", "A", "C", "T", "E", "D", "_", "S", "S", "N", "]">>
      [] kind = "credit_card" ->
           <<"[", "R", "E", "D", "A", "C", "T", "E", "D", "_", "C", "C", "]">>

\* one `if self.pii_patterns.get(kind): redacted = re.sub(...)` of redact_pii
RedactKind(pii_patterns, kind, pattern, text) ==
    IF pii_patterns[kind] THEN SubFrom(pattern, Placeholder(kind), text, 1) ELSE text

\* Guardrails.redact_pii(text)
RedactPii(pii_patterns, text) ==
    LET email == RedactKind(pii_patterns, "email", EmailPattern, text)
        phone == RedactKind(pii_patterns, "phone", PhonePattern, email)
        ssn == RedactKind(pii_patterns, "ssn", SsnPattern, phone)
    IN RedactKind(pii_patterns, "credit_card", CreditCardPattern, ssn)

\* the pieces the texts given to redact_pii are put together from
PiiFrags ==
    {<<"a", "@", "a", ".", "a", "a">>,
     <<"a", "@", "a", ".", "a", "|">>,
     <<"5", "5", "5", "-", "5", "5", "5", "-", "5", "5", "5", "5">>,
     <<"(", "5", "5", "5", ")", " ", "5", "5", "5", "5", "5", "5", "5">>,
     <<"5", "5", "5", "5", "5", "5", "5", "5", "5", "5">>,
     <<"5", "5", "5", "-", "5", "5", "-", "5", "5", "5", "5">>,
     <<"5", "5", "5", "5", " ", "5", "5", "5", "5", "-", "5", "5", "5", "5", " ",
       "5", "5", "5", "5">>,
     <<"5", "5", "5", "5", "5", "5">>,
     <<"+", "1", " ">>, <<"1">>, <<" ">>, <<"a">>,
     Placeholder("email")}

RECURSIVE PiiTexts(_)
PiiTexts(k) ==
    IF k = 0 THEN {<<>>}
    ELSE LET shorter == PiiTexts(k - 1)
         IN shorter \cup {t \o f : t \in shorter, f \in PiiFrags}

InitRedact ==
    /\ constructed = "new"
    /\ faiss_index = "None"
    /\ bm25 = "None"
    /\ docs = <<>>
    /\ meta = <<>>
    /\ use_reranker = FALSE
    /\ cfg = DefaultCfg
    /\ session = NoSession
    /\ \E text \in PiiTexts(MaxPiiFrags), pii_patterns \in [PiiKinds -> BOOLEAN] :
         call = [op |-> "text", pii_patterns |-> pii_patterns, text |-> text, passes |-> 0]

\* text = guardrails.redact_pii(text), once on the text given and once more on
\* what that returned
Redact ==
    /\ call.op \in {"text", "redacted"}
    /\ call.passes < 2
    /\ call' = [op |-> "redacted", pii_patterns |-> call.pii_patterns,
                given |-> call.text, text |-> RedactPii(call.pii_patterns, call.text),
                passes |-> call.passes + 1]
    /\ UNCHANGED <<constructed, faiss_index, bm25, docs, meta, use_reranker, cfg, session>>

NextRedact == Redact

SpecRedact == InitRedact /\ [][NextRedact]_vars

\* ----------------------------------------------------------- validate_answer
\* the number of characters a symbol of a text stands for; the six words of
\* "L" are taken at one character each
SymLen(c) ==
    CASE c \in {"S", "s"} -> 6
      [] c = "E" -> 8
      [] c = "K" -> 9
      [] c = "A" -> 7
      [] c = "F" -> 20
      [] c = "D" -> 13
      [] c = "L" -> 11
      [] c = "LLM error" -> 13
      [] OTHER -> 1

\* len(text)
RECURSIVE AnswerLen(_)
AnswerLen(text) == IF Len(text) = 0 THEN 0 ELSE SymLen(Head(text)) + AnswerLen(Tail(text))

ValidateAnswerAnySources(answer, sources) ==
    IF Len(answer) = 0 \/ AnswerLen(Strip(answer)) < MinAnswerLen
    THEN [is_valid |-> FALSE, warning |-> "Answer too short or empty"]
    ELSE [is_valid |-> TRUE, warning |-> ""]

\* Guardrails.validate_answer(answer, sources)
ValidateAnswer(answer, sources) ==
    IF Len(answer) = 0 \/ AnswerLen(Strip(answer)) < MinAnswerLen
    THEN [is_valid |-> FALSE, warning |-> "Answer too short or empty"]
    ELSE IF Len(sources) = 0
         THEN [is_valid |-> FALSE, warning |-> "No sources retrieved - cannot answer"]
         ELSE [is_valid |-> TRUE, warning |-> ""]

\* the answers given to validate_answer directly: k characters that are not
\* white space, alone or with white space before or after them
Pads == {<<>>, <<" ">>, <<"n", " ">>}
ValidateAnswers ==
    {before \o [p \in 1 .. k |-> "x"] \o after :
        k \in 0 .. MaxAnswerLen, before \in Pads, after \in Pads}

InitValidate ==
    /\ constructed = "new"
    /\ faiss_index = "None"
    /\ bm25 = "None"
    /\ docs = <<>>
    /\ meta = <<>>
    /\ use_reranker = FALSE
    /\ cfg = DefaultCfg
    /\ session = NoSession
    /\ call = NoCall

\* guardrails.validate_answer(answer, sources) on an answer and a source list
Validate ==
    /\ call = NoCall
    /\ \E answer \in ValidateAnswers, k \in 0 .. MaxSources :
         LET sources == SourcesOfLen(k)
             v == ValidateAnswer(answer, sources)
         IN call' = [op |-> "validated", answer |-> answer, sources |-> sources,
                     of_query |-> FALSE, unavailable |-> FALSE, degraded |-> FALSE,
                     is_valid |-> v.is_valid, warning |-> v.warning]
    /\ UNCHANGED <<constructed, faiss_index, bm25, docs, meta, use_reranker, cfg, session>>

\* guardrails.validate_answer(result["answer"], result["sources"]) on the
\* result query returned
ValidateResult ==
    /\ call.op = "query"
    /\ call.outcome = "returned"
    /\ LET v == ValidateAnswer(call.result.answer, call.result.sources)
       IN call' = [op |-> "validated", answer |-> call.result.answer,
                   sources |-> call.result.sources,
                   of_query |-> TRUE, unavailable |-> IndexesMissing(Self),
                   degraded |-> call.primary_raised,
                   is_valid |-> v.is_valid, warning |-> v.warning]
    /\ UNCHANGED <<constructed, faiss_index, bm25, docs, meta, use_reranker, cfg, session>>

NextValidate == Construct \/ Query \/ Validate \/ ValidateResult

SpecValidate == InitValidate /\ [][NextValidate]_vars

\* ------------------------------------------------------- the output length
Max(a, b) == IF a >= b THEN a ELSE b

\* available = max(0, ctx_limit - prompt_tokens - 200)
Available(ctx_limit, prompt_tokens) == Max(0, ctx_limit - prompt_tokens - SafetyMargin)

\* the cap without its lower limit
SafeMaxOutputNoFloor(ctx_limit, prompt_tokens) ==
    Min(MaxOutput, Available(ctx_limit, prompt_tokens))

\* safe_max_output = min(2048, max(256, available))
SafeMaxOutput(ctx_limit, prompt_tokens) ==
    Min(MaxOutput, Max(MinOutput, Available(ctx_limit, prompt_tokens)))

\* cfg["model"]["ctx_tokens"]: the windows the pipeline is configured with
CtxSizes == {512, 1024, 2048, 2560, 4096}

\* len(prompt.split()): the words of the template and those of the context and
\* the question
PromptLens == PromptFixed .. (PromptFixed + MaxPromptWords)

InitBudget ==
    /\ constructed = "new"
    /\ faiss_index = "None"
    /\ bm25 = "None"
    /\ docs = <<>>
    /\ meta = <<>>
    /\ use_reranker = FALSE
    /\ cfg = DefaultCfg
    /\ session = NoSession
    /\ \E ctx_tokens \in CtxSizes, prompt_tokens \in PromptLens :
         call = [op |-> "prompt", ctx_tokens |-> ctx_tokens, prompt_tokens |-> prompt_tokens]

\* the lines of query between the prompt and the call self.llm(prompt,
\* max_tokens=safe_max_output, ...)
CapOutput ==
    /\ call.op = "prompt"
    /\ call' = [op |-> "generate", ctx_tokens |-> call.ctx_tokens,
                prompt_tokens |-> call.prompt_tokens,
                available |-> Available(call.ctx_tokens, call.prompt_tokens),
                max_tokens |-> SafeMaxOutput(call.ctx_tokens, call.prompt_tokens)]
    /\ UNCHANGED <<constructed, faiss_index, bm25, docs, meta, use_reranker, cfg, session>>

NextBudget == CapOutput

SpecBudget == InitBudget /\ [][NextBudget]_vars

\* =================================================================== claims
IsSearch == call.op = "search"
Returned == IsSearch /\ call.outcome = "returned"
Alpha == call.params.alpha

\* the position of chunk i in a list of entries (0 when absent)
RECURSIVE ChunkPosFrom(_, _, _)
ChunkPosFrom(items, i, p) ==
    IF p > Len(items) THEN 0
    ELSE IF items[p].chunk = i THEN p ELSE ChunkPosFrom(items, i, p + 1)
ChunkPos(items, i) == ChunkPosFrom(items, i, 1)

InDense(i) == \E q \in 1 .. Len(call.I) : call.I[q] = i
InLexical(i) == i \in call.bm_top
\* the raw scores the two indexes gave for the query
RawDense(i) == call.D[CHOOSE q \in 1 .. Len(call.I) : call.I[q] = i]
RawBm(i) == IF i >= 0 THEN call.bm_scores[i + 1]
            ELSE call.bm_scores[Len(call.bm_scores) + i + 1]
WeightedSum(a, d, b) == 10 * (a * d + (AlphaDen - a) * b)

\* C1: every candidate that is in the dense top list and in the lexical top set
\* is fused, and its fused score is alpha * dense + (1 - alpha) * sparse of its
\* own two raw scores, with the one alpha of the call.
C1_FusedIsWeightedSum ==
    (IsSearch /\ call.loaded) =>
        /\ \A i \in call.bm_top : InDense(i) => ChunkPos(call.fused_all, i) > 0
        /\ \A p \in 1 .. Len(call.fused_all) :
             LET e == call.fused_all[p]
             IN (InDense(e.chunk) /\ InLexical(e.chunk)) =>
                    e.score = WeightedSum(Alpha, RawDense(e.chunk), RawBm(e.chunk))
        /\ \A p \in 1 .. Len(call.results) :
             LET r == call.results[p]
             IN (InDense(r.chunk) /\ InLexical(r.chunk)) =>
                    r.orig_score = WeightedSum(Alpha, RawDense(r.chunk), RawBm(r.chunk))

C1_Witness ==
    /\ Returned /\ call.loaded
    /\ Alpha = DefaultAlpha
    /\ \E p \in 1 .. Len(call.results) :
         LET r == call.results[p]
         IN /\ InDense(r.chunk) /\ InLexical(r.chunk)
            /\ RawDense(r.chunk) > 0 /\ RawBm(r.chunk) > 0
            /\ r.orig_score = WeightedSum(DefaultAlpha, RawDense(r.chunk), RawBm(r.chunk))

\* C2 as stated, for the chunks of the corpus in a search that returns: a
\* candidate in only one top set gets 0 for the other signal (dense only:
\* alpha * dense; lexical only: (1 - alpha) * sparse), and no id of either top
\* set is left out of the candidates.
C2_MissingSignalIsZero ==
    (Returned /\ call.loaded) =>
        /\ \A i \in Range(call.I) \cup call.bm_top : ChunkPos(call.fused_all, i) > 0
        /\ \A p \in 1 .. Len(call.fused_all) :
             LET e == call.fused_all[p]
             IN /\ (InDense(e.chunk) /\ ~InLexical(e.chunk) /\ e.chunk \in Chunks) =>
                       e.score = WeightedSum(Alpha, RawDense(e.chunk), 0)
                /\ (InLexical(e.chunk) /\ ~InDense(e.chunk)) =>
                       e.score = WeightedSum(Alpha, 0, RawBm(e.chunk))

\* C2 amended: a candidate that is only in the lexical top set gets 0 for the
\* dense signal; a candidate that is only in the dense top list gets the BM25
\* score the lexical index gave its id (bm_scores[i]), which need not be 0; no
\* id of either top set is left out of the candidates.
C2_MissingDenseIsZero ==
    (IsSearch /\ call.loaded) =>
        /\ \A i \in Range(call.I) \cup call.bm_top : ChunkPos(call.fused_all, i) > 0
        /\ \A p \in 1 .. Len(call.fused_all) :
             LET e == call.fused_all[p]
             IN /\ (InDense(e.chunk) /\ ~InLexical(e.chunk)) =>
                       e.score = WeightedSum(Alpha, RawDense(e.chunk), RawBm(e.chunk))
                /\ (InLexical(e.chunk) /\ ~InDense(e.chunk)) =>
                       e.score = WeightedSum(Alpha, 0, RawBm(e.chunk))

C2_Witness ==
    /\ Returned /\ call.loaded
    /\ Alpha = DefaultAlpha
    /\ \E p, q \in 1 .. Len(call.fused_all) :
         LET e == call.fused_all[p]
             l == call.fused_all[q]
         IN /\ InDense(e.chunk) /\ ~InLexical(e.chunk) /\ e.chunk >= 0
            /\ RawBm(e.chunk) > 0
            /\ e.score = WeightedSum(Alpha, RawDense(e.chunk), RawBm(e.chunk))
            /\ InLexical(l.chunk) /\ ~InDense(l.chunk)
            /\ RawBm(l.chunk) > 0
            /\ l.score = WeightedSum(Alpha, 0, RawBm(l.chunk))

\* C3: a search that returns gives at most top_k results, in non-increasing
\* order of final score, and results of equal final score are in the order
\* they had in the list that was sorted.
C3_SortedAndBounded ==
    Returned =>
        /\ Len(call.results) <= call.params.top_k
        /\ \A p, q \in 1 .. Len(call.results) : p < q =>
             /\ call.results[p].score >= call.results[q].score
             /\ (call.results[p].score = call.results[q].score) =>
                    ChunkPos(call.sort_input, call.results[p].chunk)
                        < ChunkPos(call.sort_input, call.results[q].chunk)

C3_Witness ==
    /\ Returned /\ call.loaded
    /\ call.params.top_k >= 2
    /\ Len(call.results) = call.params.top_k
    /\ call.results[1].score = call.results[2].score
    /\ call.results[1].reranked

\* C4: with the reranker every result's final score is 0.7 * rerank_score +
\* 0.3 * fused_score and the results are in the order of that value (fused 0.9
\* and 0.4 with rerank scores 0.2 and 0.95 give 0.41 and 0.785, the second
\* first); without it the final score is the fused score and the results are
\* the head of the fused list, in its order.
C4_FinalScore ==
    Returned =>
        \A p \in 1 .. Len(call.results) :
            LET r == call.results[p]
                f == call.fused[ChunkPos(call.fused, r.chunk)]
            IN /\ ChunkPos(call.fused, r.chunk) > 0
               /\ r.orig_score = f.score
               /\ IF use_reranker
                  THEN /\ r.rerank_score = call.rr[r.text]
                       /\ 10 * r.score = RerankWeight * RawUnit * r.rerank_score
                                            + FusionWeight * r.orig_score
                       /\ \A q \in 1 .. Len(call.results) :
                            p < q => r.score >= call.results[q].score
                       /\ (/\ r.orig_score = 18 * RawUnit /\ r.rerank_score = 4
                           => r.score = 1640)
                       /\ (/\ r.orig_score = 8 * RawUnit /\ r.rerank_score = 19
                           => /\ r.score = 3140
                              /\ \A q \in 1 .. Len(call.results) :
                                   (/\ call.results[q].orig_score = 18 * RawUnit
                                    /\ call.results[q].rerank_score = 4) => p < q)
                  ELSE /\ r.score = f.score
                       /\ ChunkPos(call.fused, r.chunk) = p

C4_Witness ==
    /\ Returned /\ use_reranker
    /\ Len(call.results) = 2
    /\ Len(call.fused) >= 2
    /\ \E a, b \in 1 .. Len(call.fused) :
         /\ a < b
         /\ call.fused[a].score = 18 * RawUnit
         /\ call.fused[b].score = 8 * RawUnit
         /\ call.results[1].chunk = call.fused[b].chunk
         /\ call.results[2].chunk = call.fused[a].chunk
    /\ call.results[1].rerank_score = 19 /\ call.results[1].score = 3140
    /\ call.results[2].rerank_score = 4 /\ call.results[2].score = 1640

\* C5: a search made while the dense or the lexical index is not loaded returns
\* the empty list, does not raise, and calls neither the embedding model nor
\* the cross-encoder.
C5_EmptyWhenNotLoaded ==
    (IsSearch /\ (faiss_index = "None" \/ bm25 = "None")) =>
        /\ call.outcome = "returned"
        /\ call.results = <<>>
        /\ call.embed_calls = 0
        /\ call.rerank_calls = 0

C5_Witness ==
    /\ IsSearch
    /\ faiss_index = "loaded" /\ bm25 = "None" /\ use_reranker
    /\ call.params.explain
    /\ call.outcome = "returned" /\ call.results = <<>>

\* C6 as stated: constructing a retriever never raises, whatever the state of
\* the index files, and once an index has failed to load every search returns
\* the empty list.
C6_LoadFailureDegrades ==
    /\ constructed # "raised"
    /\ (IsSearch /\ (faiss_index = "None" \/ bm25 = "None")) =>
           (call.outcome = "returned" /\ call.results = <<>>)

\* ------------------------------------------------------------ query claims
IsQuery == call.op = "query"
QueryReturned == IsQuery /\ call.outcome = "returned"

\* result.sources mirrors what search returned: as long, in its order, the entry
\* at position p (from 1) with id p and the text, title and score of result p
Mirrors(sources, results) ==
    /\ Len(sources) = Len(results)
    /\ \A p \in 1 .. Len(sources) :
         /\ sources[p].id = p
         /\ sources[p].text_full = results[p].text
         /\ sources[p].title = results[p].title
         /\ sources[p].score = results[p].score

\* C7 as stated: a query call never raises: whatever fails on the way, it ends
\* by returning a result.
C7_QueryNeverRaises == IsQuery => call.outcome = "returned"

\* C8: when the generation call for the answer fails, query returns the error
\* text as answer with sources = [], evidence_map = [], both flags false and
\* followup_questions = "", and the failed call is the only generation call made.
C8_DegradedResult ==
    (QueryReturned /\ call.primary_raised) =>
        /\ call.result.answer = ErrorAnswer
        /\ call.result.sources = <<>>
        /\ call.result.evidence_map = <<>>
        /\ call.result.has_external_knowledge = FALSE
        /\ call.result.uncited_warning = FALSE
        /\ call.result.followup_questions = <<>>
        /\ Len(call.steps) = 1
        /\ call.steps[1].kind = "answer"

C8_Witness ==
    /\ QueryReturned /\ call.primary_raised
    /\ call.explain /\ call.generate_followups
    /\ Len(call.search.results) >= 2
    /\ call.result.sources = <<>>
    /\ call.result.answer = ErrorAnswer

\* C9 as stated: whenever query returns, result.sources mirrors the list search
\* returned for the question.
C9_SourcesMirrorAlways ==
    QueryReturned => Mirrors(call.result.sources, call.search.results)

\* C9 amended: when query returns without the answer call having failed,
\* result.sources mirrors the list search returned (same length and order, id =
\* position, whatever the chunk id); when the answer call failed, sources = [].
C9_SourcesMirrorOnSuccess ==
    QueryReturned =>
        IF call.primary_raised
        THEN call.result.sources = <<>>
        ELSE Mirrors(call.result.sources, call.search.results)

C9_Witness ==
    /\ QueryReturned /\ ~call.primary_raised
    /\ Len(call.search.results) >= 2
    /\ Mirrors(call.result.sources, call.search.results)
    /\ \E p \in 1 .. Len(call.result.sources) :
         call.result.sources[p].id # call.search.results[p].chunk + 1

\* --------------------------------------------------- evidence map claims
\* N is cited in the text: somewhere stands [Source d] with d a string of digits
\* whose value is N
CitedIds(text) ==
    {IntOf(SubSeq(text, a + 3, b - 1)) :
        <<a, b>> \in {w \in (1 .. Len(text)) \X (1 .. Len(text)) :
                        /\ w[1] + 4 <= w[2]
                        /\ text[w[1]] = "[" /\ text[w[1] + 1] = "S" /\ text[w[1] + 2] = " "
                        /\ \A k \in (w[1] + 3) .. (w[2] - 1) : text[k] \in Digits
                        /\ text[w[2]] = "]"}}

\* C10: the evidence map has exactly one entry for each cited N that is the id
\* of a source, no other entry, and the entries are in strictly ascending order
\* of id, each with the title and span of the source of that id.
C10_EvidenceMap ==
    call.op = "evidence" =>
        LET ev == call.evidence_map
            ids == {call.sources[p].id : p \in 1 .. Len(call.sources)}
        IN /\ {ev[p].id : p \in 1 .. Len(ev)} = CitedIds(call.answer) \cap ids
           /\ \A p, q \in 1 .. Len(ev) : p < q => ev[p].id < ev[q].id
           /\ \A p \in 1 .. Len(ev) :
                \E q \in 1 .. Len(call.sources) :
                    /\ call.sources[q].id = ev[p].id
                    /\ call.sources[q].title = ev[p].source_title
                    /\ call.sources[q].text_full = ev[p].span.text

C10_Witness ==
    /\ call.op = "evidence"
    /\ call.answer = <<"[", "S", " ", "2", "]", "[", "S", " ", "1", "]", "[", "S", " ", "2", "]">>
    /\ Len(call.sources) = 2
    /\ Len(call.evidence_map) = 2
    /\ call.evidence_map[1].id = 1
    /\ call.evidence_map[2].id = 2

\* the digit strings of the [Source d] tags of the text
CitedTags(text) ==
    {SubSeq(text, w[1] + 3, w[2] - 1) :
        w \in {v \in (1 .. Len(text)) \X (1 .. Len(text)) :
                 /\ v[1] + 4 <= v[2]
                 /\ text[v[1]] = "[" /\ text[v[1] + 1] = "S" /\ text[v[1] + 2] = " "
                 /\ \A k \in (v[1] + 3) .. (v[2] - 1) : text[k] \in Digits
                 /\ text[v[2]] = "]"}}

\* the answer of the returned query has [Source 2] and no other citation tag
OnlySource2 ==
    /\ QueryReturned /\ ~call.primary_raised
    /\ CitedTags(call.result.answer) = {<<"2">>}

\* C11 as stated: when the answer has the tag [Source 2] and no other citation
\* tag, the evidence map of the result has exactly one entry, with id = 2.
C11_Source2Entry ==
    OnlySource2 =>
        /\ Len(call.result.evidence_map) = 1
        /\ call.result.evidence_map[1].id = 2

\* C11 amended: when the answer has the tag [Source 2] and no other citation
\* tag, the evidence map has exactly one entry, with id = 2 and the title of the
\* second source, if the result has at least two sources, and is empty otherwise.
C11_Source2EntryIfPresent ==
    OnlySource2 =>
        IF Len(call.result.sources) >= 2
        THEN /\ Len(call.result.evidence_map) = 1
             /\ call.result.evidence_map[1].id = 2
             /\ call.result.evidence_map[1].source_title = call.result.sources[2].title
             /\ call.result.evidence_map[1].span.text = call.result.sources[2].text_full
        ELSE call.result.evidence_map = <<>>

C11_Witness ==
    /\ OnlySource2
    /\ Len(call.result.sources) = 2
    /\ Len(call.result.evidence_map) = 1
    /\ call.result.evidence_map[1].id = 2

\* ------------------------------------------------------ uncited-claim claims
\* the sentences of an answer: the pieces between the runs of white space that
\* follow a ".", "!" or "?" (carriage returns dropped first)
SentencesOf(answer) == Range(SplitSentences(Normalize(answer), 1, 1))

\* a sentence of more than 6 words that has no disclaimer phrase
LongPlainSentence(s) == WordCount(s) > 6 /\ ~Contains(s, <<"D">>)

\* C12 as stated: an answer with no [Source N] tag and with a sentence of more
\* than 6 words that is not a disclaimer has uncited_warning true.
C12_UncitedWarning ==
    (/\ call.op = "uncited"
     /\ CitedTags(call.answer) = {}
     /\ \E s \in SentencesOf(call.answer) : LongPlainSentence(s))
        => call.uncited_warning

\* C12 amended: an answer with no [Source N] tag and with a sentence of more than
\* 6 words that is not a disclaimer, has no "[External" marker and does not begin
\* with the label "Follow-up questions:" has uncited_warning true.
C12_UncitedWarningUnmarked ==
    (/\ call.op = "uncited"
     /\ CitedTags(call.answer) = {}
     /\ \E s \in SentencesOf(call.answer) :
          /\ LongPlainSentence(s)
          /\ ~Contains(s, <<"[", "E">>)
          /\ LStrip(s)[1] # "F")
        => call.uncited_warning

C12_Witness ==
    /\ call.op = "uncited"
    /\ call.answer = <<"1", ".", " ", "L", " ", "x", ".">>
    /\ call.uncited_warning

\* ------------------------------------------------- secondary-call claims
\* the result the same call gives when every rationale call and the follow-up
\* call succeed
AllSucceed ==
    query(call.question, call.prompt_suffix, call.explain, call.generate_followups,
          call.search, call.primary,
          [p \in 1 .. Len(call.rationales) |-> "text"],
          Gives(<<"1", ".", " ", "x", "?">>)).result

RationaleSteps == {p \in 1 .. Len(call.steps) : call.steps[p].kind = "rationale"}

\* C13: a failed rationale call changes only the llm_reasoning of its source, to
\* an error message, and the rationale calls for the other sources are still
\* made; a failed follow-up call gives followup_questions = ""; answer,
\* evidence_map, both flags and the rest of the sources are what they are when
\* the calls succeed.
C13_SecondaryFailuresIsolated ==
    (QueryReturned /\ ~call.primary_raised) =>
        LET res == call.result
            ok == AllSucceed
        IN /\ res.answer = ok.answer
           /\ res.evidence_map = ok.evidence_map
           /\ res.has_external_knowledge = ok.has_external_knowledge
           /\ res.uncited_warning = ok.uncited_warning
           /\ Len(res.sources) = Len(ok.sources)
           /\ \A p \in 1 .. Len(res.sources) :
                /\ [res.sources[p] EXCEPT !.llm_reasoning = "none"]
                     = [ok.sources[p] EXCEPT !.llm_reasoning = "none"]
                /\ call.explain =>
                     CASE call.rationales[p] = "raise" ->
                            res.sources[p].llm_reasoning = "Error generating explanation"
                       [] call.rationales[p] = "text" ->
                            res.sources[p].llm_reasoning = ok.sources[p].llm_reasoning
                       [] OTHER -> TRUE
           /\ call.explain =>
                {call.steps[p].source : p \in RationaleSteps}
                    = {res.sources[p].id : p \in 1 .. Len(res.sources)}
           /\ (call.generate_followups /\ call.followup.raised) =>
                res.followup_questions = <<>>

C13_Witness ==
    /\ QueryReturned /\ ~call.primary_raised
    /\ call.explain /\ call.generate_followups
    /\ Len(call.result.sources) = 2
    /\ call.rationales = <<"raise", "text">>
    /\ call.followup.raised
    /\ call.result.sources[1].llm_reasoning = "Error generating explanation"
    /\ call.result.sources[2].llm_reasoning = "explanation"
    /\ call.result.followup_questions = <<>>
    /\ call.result.evidence_map # <<>>

\* ---------------------------------------------------- retrieval-request claims
\* the question as the caller gave it, nothing appended
RawQuestion == <<call.question, "">>

\* C14: query asks the retriever with the raw question: the request (query text,
\* top_k, rerank_k, alpha, explain) and what the indexes are asked do not depend
\* on the style suffix, so calls that differ only in the suffix retrieve alike;
\* the suffix is in the question line of the generation prompt.
C14_RetrievalOnRawQuestion ==
    IsQuery =>
        /\ call.search_query = RawQuestion
        /\ \A other \in Suffixes : SearchQuery(call.question, other) = call.search_query
        /\ call.search.params = [top_k |-> cfg.top_k, rerank_k |-> cfg.rerank_k,
                                 alpha |-> cfg.hybrid_alpha, explain |-> call.explain]
        /\ call.search.loaded =>
             /\ call.search.bm_scores = BmScores(BmFor(RawQuestion))
             /\ \A p \in 1 .. Len(call.search.I) :
                  call.search.I[p] \in Chunks =>
                      call.search.D[p] = DenseFor(RawQuestion)[call.search.I[p]]
        /\ call.prompt_question = <<call.question, call.prompt_suffix>>

C14_Witness ==
    /\ QueryReturned
    /\ call.prompt_suffix # ""
    /\ call.question = <<"x", "?">>
    /\ call.search_query = <<<<"x", "?">>, "">>
    /\ call.prompt_question[2] = call.prompt_suffix
    /\ Len(call.result.sources) >= 1
    /\ call.search.D[1] = DenseFor(RawQuestion)[call.search.I[1]]
    /\ call.search.D[1] # DenseFor(<<call.question, call.prompt_suffix>>)[call.search.I[1]]

IsCommandQuery == call.op \in {"chat_turn", "query_rag"}

\* C16 as stated: a question that check_query_safety judges unsafe is stopped
\* before retrieval: no command hands it to rag.query, so neither the retriever
\* nor the generation service is asked.
C16_UnsafeQuestionStopped ==
    IsCommandQuery => CheckQuerySafety(BlockedTopics, call.rag.question).is_safe

\* C19 as stated: a malformed configuration value is not used as given: an
\* unsupported style gives the detailed template with a warning, and the alpha
\* search is called with lies in [0, 1] whatever the configured value.
C19_MalformedConfigFallsBack ==
    call.op = "query_rag" =>
        /\ call.style \notin (DOMAIN StyleTemplates \cup {"auto"}) =>
              /\ call.prompt_suffix = StyleTemplates["detailed"]
              /\ call.style_warning
        /\ call.rag.search.params.alpha \in 0 .. AlphaDen

\* the list of the turn before: the list lines of its follow-up text, none when
\* there was no turn before or it gave no follow-up text
ListOfTurnBefore ==
    IF call.op = "chat_turn" /\ call.rag.outcome = "returned"
    THEN ParseFollowups(call.rag.result.followup_questions)
    ELSE <<>>

PatternOf(kind) ==
    CASE kind = "email" -> EmailPattern
      [] kind = "phone" -> PhonePattern
      [] kind = "ssn" -> SsnPattern
      [] kind = "credit_card" -> CreditCardPattern

\* C17: redact_pii is idempotent for every text and every combination of
\* enabled kinds: redacting the text redact_pii returned gives that text back,
\* none of the enabled patterns has a match left in it, and no pattern has a
\* match in the placeholder of an enabled kind.
C17_RedactIdempotent ==
    call.op = "redacted" =>
        /\ call.passes = 2 => call.text = call.given
        /\ \A kind \in PiiKinds :
             call.pii_patterns[kind] =>
                 SubFrom(PatternOf(kind), <<>>, call.text, 1) = call.text
        /\ \A kind, other \in PiiKinds :
             call.pii_patterns[other] =>
                 SubFrom(PatternOf(kind), <<>>, Placeholder(other), 1) = Placeholder(other)

\* an address and a number next to each other, both replaced, redacted again
C17_Witness ==
    /\ call.op = "redacted"
    /\ call.passes = 2
    /\ \A kind \in PiiKinds : call.pii_patterns[kind]
    /\ call.given = Placeholder("email") \o Placeholder("phone")
    /\ call.text = call.given

\* C18: validate_answer rejects every answer of fewer than 10 characters even
\* with sources, rejects every answer when there are no sources, and accepts
\* only answers of at least 10 characters with at least one source; so the
\* result of query on a corpus that is not available, and the result query
\* returns when the generation fails, are both rejected.
C18_ValidateAnswer ==
    call.op = "validated" =>
        /\ AnswerLen(call.answer) < MinAnswerLen => ~call.is_valid
        /\ Len(call.sources) = 0 => ~call.is_valid
        /\ call.is_valid => AnswerLen(call.answer) >= MinAnswerLen /\ Len(call.sources) > 0
        /\ call.of_query /\ (call.unavailable \/ call.degraded) => ~call.is_valid

\* the result of a failed generation over a corpus that is available, rejected
\* for its sources although its answer is long enough
C18_Witness ==
    /\ call.op = "validated"
    /\ call.of_query
    /\ call.degraded
    /\ ~call.unavailable
    /\ call.answer = ErrorAnswer
    /\ ~call.is_valid
    /\ call.warning = "No sources retrieved - cannot answer"

StepsOfKind(kind) == {p \in 1 .. Len(call.steps) : call.steps[p].kind = kind}
StepsNamed(step) == {p \in 1 .. Len(call.steps) : call.steps[p].step = step}

\* what C21 says of the calls of the generation service: one call for the
\* answer, made first; rationale calls only with explain, one per source in the
\* order of the sources; at most one follow-up call, only with
\* generate_followups, after every rationale call
GenerationCalls ==
    /\ StepsOfKind("answer") = {1}
    /\ StepsOfKind("rationale") # {} => call.explain
    /\ (call.explain /\ ~call.primary_raised) =>
         /\ Cardinality(StepsOfKind("rationale")) = Len(call.result.sources)
         /\ \A p \in StepsOfKind("rationale") :
              \E k \in 1 .. Len(call.result.sources) :
                 /\ call.steps[p].source = call.result.sources[k].id
                 /\ Cardinality({q \in StepsOfKind("rationale") : q < p}) = k - 1
    /\ StepsOfKind("followup") # {} => call.generate_followups
    /\ (call.generate_followups /\ ~call.primary_raised) =>
         Cardinality(StepsOfKind("followup")) = 1
    /\ \A f \in StepsOfKind("followup"), r \in StepsOfKind("rationale") : r < f
    /\ (~call.primary_raised) =>
         /\ Cardinality(StepsNamed("evidence_map")) = 1
         /\ Cardinality(StepsNamed("has_external")) = 1
         /\ Cardinality(StepsNamed("uncited_claims")) = 1

\* C21 as stated: the calls of the generation service are as above, and the
\* evidence map, the external-knowledge flag and the uncited-claim flag are all
\* computed before the first rationale call.
C21_StagesInOrder ==
    QueryReturned =>
        /\ GenerationCalls
        /\ \A p \in StepsOfKind("post"), r \in StepsOfKind("rationale") : p < r

\* C21, amended: the calls of the generation service are as above; of the
\* post-processing only the evidence map is computed before the first rationale
\* call, the external-knowledge flag and the uncited-claim flag are computed
\* after the last rationale call and before the follow-up call.
C21_StagesAsRun ==
    QueryReturned =>
        /\ GenerationCalls
        /\ \A p \in StepsNamed("evidence_map") :
              /\ p = 2
              /\ \A r \in StepsOfKind("rationale") : p < r
        /\ \A p \in StepsNamed("has_external") \cup StepsNamed("uncited_claims") :
              /\ \A r \in StepsOfKind("rationale") : r < p
              /\ \A f \in StepsOfKind("followup") : p < f

\* a query with explain over two sources or more, with follow-up questions
C21_Witness ==
    /\ QueryReturned
    /\ ~call.primary_raised
    /\ call.explain
    /\ call.generate_followups
    /\ Len(call.result.sources) >= 2
    /\ Cardinality(StepsOfKind("rationale")) = Len(call.result.sources)
    /\ Len(call.steps) = Len(call.result.sources) + 5

Pieces == SplitSentences(Normalize(call.answer), 1, 1)

\* the piece before piece k ends with the marker of a numbered list item, 1.,
\* 2. or 3. at the start of a line, so piece k is the text of that item
ListItem(pieces, k) ==
    /\ k > 1
    /\ LET m == Strip(pieces[k - 1])
           e == Len(m)
       IN /\ e >= 2
          /\ m[e] = "."
          /\ m[e - 1] \in {"1", "2", "3"}
          /\ (e = 2 \/ m[e - 2] = "n")

\* the classification C22 states for piece k: a claim without citation unless
\* it is empty, a numbered list item, has a disclaimer phrase, carries a
\* [Source N] tag or an external-knowledge tag, or has 6 words or fewer
StatedUncited(pieces, k) ==
    LET s == Strip(NewlinesToSpaces(Strip(pieces[k])))
    IN /\ Len(s) > 0
       /\ ~ListItem(pieces, k)
       /\ ~Contains(s, <<"D">>)
       /\ ~(\E p \in 1 .. Len(s) : CitationEnd(s, p) > 0)
       /\ ~Contains(s, <<"[", "E">>)
       /\ WordCount(s) > 6

\* C22 as stated: _check_for_uncited_claims counts a sentence exactly when it is
\* not empty, not a numbered follow-up list item, has no disclaimer phrase, no
\* [Source N] tag and no external-knowledge tag, and has more than 6 words; and
\* uncited_warning is true exactly when some sentence is counted.
C22_UncitedClassification ==
    call.op = "uncited" =>
        /\ \A k \in 1 .. Len(Pieces) :
             IsUncitedClaim(Pieces[k]) <=> StatedUncited(Pieces, k)
        /\ call.uncited_warning <=> \E k \in 1 .. Len(Pieces) : StatedUncited(Pieces, k)

\* x clamped to the range lo .. hi
Clamp(x, lo, hi) == IF x < lo THEN lo ELSE IF x > hi THEN hi ELSE x

\* C23: the output length asked of the generation service is the window size
\* minus the prompt length minus the margin of 200, clamped to 256 .. 2048; it
\* is never below 256 and never above 2048.
C23_OutputLengthClamped ==
    call.op = "generate" =>
        /\ call.max_tokens =
             Clamp(call.ctx_tokens - call.prompt_tokens - SafetyMargin, MinOutput, MaxOutput)
        /\ call.max_tokens >= MinOutput
        /\ call.max_tokens <= MaxOutput

\* a prompt longer than the window: the difference is negative and the length
\* asked for is the lower limit
C23_Witness ==
    /\ call.op = "generate"
    /\ call.ctx_tokens - call.prompt_tokens - SafetyMargin < 0
    /\ call.available = 0
    /\ call.max_tokens = MinOutput

\* C26 as stated: the prompt length and the output length asked for never
\* exceed the window together: prompt_tokens + max_tokens <= ctx_tokens.
C26_FitsWindow ==
    call.op = "generate" => call.prompt_tokens + call.max_tokens <= call.ctx_tokens

\* the block of the context with label n shows the chunk of source s
ShownUnder(context, n, s) ==
    \E p \in 1 .. Len(context) :
        /\ context[p].label = n
        /\ context[p].title = s.title
        /\ context[p].excerpt.text = s.text_full

\* C24: the prompt lists every retrieved chunk in the order of retrieval as a
\* block labelled [Source N] with its title and at most 400 characters of its
\* text; N is the id of that chunk in the returned sources, and every entry of
\* the evidence map, made for a tag [Source N] of the answer, has the title and
\* the text of the chunk shown under label N.
C24_LabelsAreSourceIds ==
    QueryReturned =>
        LET context == call.context
            sources == call.result.sources
            ev == call.result.evidence_map
        IN /\ Len(context) = Len(call.retrieved)
           /\ \A p \in 1 .. Len(context) :
                /\ context[p].label = p
                /\ context[p].title = call.retrieved[p].title
                /\ context[p].excerpt.text = call.retrieved[p].text
                /\ context[p].excerpt.len = Min(TextLen(call.retrieved[p].text), 400)
                /\ context[p].excerpt.len <= 400
           /\ \A q \in 1 .. Len(sources) : ShownUnder(context, sources[q].id, sources[q])
           /\ (~call.primary_raised) =>
                \A p \in 1 .. Len(context) :
                    \E q \in 1 .. Len(sources) :
                        /\ sources[q].id = context[p].label
                        /\ sources[q].text_full = context[p].excerpt.text
           /\ \A k \in 1 .. Len(ev) :
                /\ ev[k].id \in CitedIds(call.result.answer)
                /\ \E p \in 1 .. Len(context) :
                     /\ context[p].label = ev[k].id
                     /\ context[p].title = ev[k].source_title
                     /\ context[p].excerpt.text = ev[k].span.text

\* an answer citing [Source 2] over two chunks retrieved in an order that is not
\* that of their chunk ids, one text longer than 400 characters
C24_Witness ==
    /\ QueryReturned
    /\ ~call.primary_raised
    /\ Len(call.result.sources) >= 2
    /\ call.result.sources[2].chunk # 1
    /\ \E p \in 1 .. Len(call.context) : call.context[p].excerpt.len = 400
    /\ \E k \in 1 .. Len(call.result.evidence_map) : call.result.evidence_map[k].id = 2

\* a search that got past the test of the indexes
SearchLoaded == IsSearch /\ call.loaded

\* what C25 says of the dense pool and of the fused list: the dense index is
\* asked for 3 * top_k ids with the reranker and for top_k without, the fused
\* list is cut to that size, and the cross-encoder is given the fused list
DensePoolAndCut ==
    LET asked == IF use_reranker THEN 3 * call.params.top_k ELSE call.params.top_k
    IN /\ Len(call.I) = asked
       /\ Len(call.fused) = Min(Len(call.cand), asked)
       /\ call.rerank_calls > 0 =>
            /\ use_reranker
            /\ Len(call.sort_input) = Len(call.fused)
            /\ Len(call.sort_input) <= 3 * call.params.top_k

\* the lexical top set holds the `size` ids of highest lexical score, all ids
\* when the corpus has fewer
LexicalTopOf(size) ==
    LET n == Len(call.bm_scores)
    IN /\ call.bm_top \subseteq 0 .. (n - 1)
       /\ Cardinality(call.bm_top) = Min(size, n)
       /\ \A a \in call.bm_top : \A b \in (0 .. (n - 1)) \ call.bm_top :
              PyIndex(call.bm_scores, a) >= PyIndex(call.bm_scores, b)

C28_ExplainDenseIsOwnScore ==
    (Returned /\ call.params.explain) =>
        \A p \in 1 .. Len(call.results) :
            LET r == call.results[p]
            IN /\ r.explain.fusion_dense = DenseOf(r.chunk, call.I, call.D)
               /\ r.explain.cos = r.explain.fusion_dense
               /\ r.explain.fusion_fused =
                    FusedScore(call.params.alpha, r.explain.fusion_dense, r.explain.fusion_bm25)

\* the sentences cited as the prompt asks: some words, then a [Source N] tag and
\* a terminator, the tag before the terminator or after it
CitedBefore == {b \o <<" ", "[", "S", " ", "1", "]">> \o <<t>> :
                   b \in {<<"x">>, <<"L">>, <<"L", " ", "x">>}, t \in {".", "?"}}
CitedAfter == {b \o <<t>> \o <<" ", "[", "S", " ", "1", "]">> :
                  b \in {<<"x">>, <<"L">>, <<"L", " ", "x">>}, t \in {".", "?"}}

\* an answer of one or two such sentences
WellCited(answer) ==
    \/ answer \in CitedBefore \cup CitedAfter
    \/ \E a, b \in CitedBefore \cup CitedAfter : answer = a \o <<" ">> \o b

\* C27 as stated: an answer in which every sentence ends with a [Source N] tag,
\* before the terminator or after it, has uncited_warning false, whatever the
\* length of its sentences.
C27_CitedAnswerNoWarning ==
    (call.op = "uncited" /\ WellCited(call.answer)) => ~call.uncited_warning

====
